---- MODULE Spec2Model ----
(***************************************************************************)
(* Versioned slicer-profile store (slicer_profiles_db): ProfileStore,      *)
(* StoredProfile, version ordering, ResourceStore and ProfilePipeline.     *)
(*                                                                         *)
(* Strings of the program are sequences of one-character strings, so that  *)
(* sanitizing, splitting, parsing and dumping are computed, not assumed.   *)
(* One slicer, one vendor and one profile type are used throughout: a      *)
(* profile file is then identified by its sanitized name.                  *)
(***************************************************************************)
EXTENDS Integers, Sequences, FiniteSets, TLC

VARIABLES
    store,      \* profile files on disk: file stem -> StoredProfile
    meta,       \* _meta.json of the slicer: [versions, last_ingested]
    call,       \* arguments of the last ingest_profiles call
    report,     \* IngestionReport of the last ingest_profiles call
    ncalls,     \* number of operations made so far
    files,      \* resource directory: set of [hash, suffix] file names
    manifest,   \* ResourceStore._manifest (in memory)
    diskManifest, \* _manifest.json as last saved
    removedRes, \* return value of the last ResourceStore.gc
    log,        \* ingest_profiles calls made by the last pipeline operation
    op,         \* the last operation: its name and arguments
    config      \* the source configuration of the slicer the store is for

vars == <<store, meta, call, report, ncalls, files, manifest, diskManifest,
          removedRes, log, op, config>>

storeVars == <<store, meta, call, report>>
resVars == <<files, manifest, diskManifest, removedRes>>

-----------------------------------------------------------------------------
(* Bounds of the model *)

MaxCalls == 2
MaxBatch == 2

-----------------------------------------------------------------------------
(* Generic helpers on sequences and functions *)

Range(s) == {s[i] : i \in 1..Len(s)}

Put(f, k, v) == [x \in (DOMAIN f) \cup {k} |-> IF x = k THEN v ELSE f[x]]

Without(f, k) == [x \in (DOMAIN f) \ {k} |-> f[x]]

EmptyMap == [x \in {} |-> {}]

IsPrefixOf(p, s) == Len(p) <= Len(s) /\ SubSeq(s, 1, Len(p)) = p

Contains(s, pat) ==
    \E i \in 1..(Len(s) - Len(pat) + 1) : SubSeq(s, i, i + Len(pat) - 1) = pat

-----------------------------------------------------------------------------
(* models.py: _version_key *)

Digits == {"0", "1", "2", "3", "4", "5", "6", "7", "8", "9"}

DigitVal(c) ==
    CASE c = "0" -> 0 [] c = "1" -> 1 [] c = "2" -> 2 [] c = "3" -> 3
      [] c = "4" -> 4 [] c = "5" -> 5 [] c = "6" -> 6 [] c = "7" -> 7
      [] c = "8" -> 8 [] c = "9" -> 9

VersionSeparators == {".", "-", "_"}

\* re.split(r"[.\-_]", v): the parts between separators, empty parts kept
RECURSIVE SplitFrom(_, _, _)
SplitFrom(v, i, cur) ==
    IF i > Len(v) THEN <<cur>>
    ELSE IF v[i] \in VersionSeparators
         THEN <<cur>> \o SplitFrom(v, i + 1, <<>>)
         ELSE SplitFrom(v, i + 1, Append(cur, v[i]))

SplitVersion(v) == SplitFrom(v, 1, <<>>)

RECURSIVE DecimalValue(_, _)
DecimalValue(part, acc) ==
    IF part = <<>> THEN acc
    ELSE DecimalValue(Tail(part), acc * 10 + DigitVal(Head(part)))

\* int(part), with ValueError -> 0
PartToInt(part) ==
    IF part # <<>> /\ \A i \in 1..Len(part) : part[i] \in Digits
    THEN DecimalValue(part, 0)
    ELSE 0

version_key(v) ==
    LET parts == SplitVersion(v)
    IN  [i \in 1..Len(parts) |-> PartToInt(parts[i])]

\* Python tuple comparison a < b
RECURSIVE TupleLess(_, _)
TupleLess(a, b) ==
    IF b = <<>> THEN FALSE
    ELSE IF a = <<>> THEN TRUE
    ELSE IF Head(a) # Head(b) THEN Head(a) < Head(b)
    ELSE TupleLess(Tail(a), Tail(b))

TupleLeq(a, b) == a = b \/ TupleLess(a, b)

KeyLeq(v, w) == TupleLeq(version_key(v), version_key(w))

KeyLess(v, w) == TupleLess(version_key(v), version_key(w))

-----------------------------------------------------------------------------
(* Values carried by settings: strings, or None *)

NoneVal == <<"<None>">>

ValA == <<"a">>
ValB == <<"b">>

\* json.dumps of a string value (no character of the model needs escaping)
JsonDumps(value) == <<"\"">> \o value \o <<"\"">>

\* store.py: ProfileStore._normalize
Normalize(value) == IF value = NoneVal THEN <<>> ELSE JsonDumps(value)

-----------------------------------------------------------------------------
(* store.py: ProfileStore._sanitize and the paths and keys built from names *)

BadFileChars == {"<", ">", ":", "\"", "/", "\\", "|", "?", "*"}

StripChars == {"_", ".", " "}

ReplaceBad(name) ==
    [i \in 1..Len(name) |-> IF name[i] \in BadFileChars THEN "_" ELSE name[i]]

RECURSIVE CollapseUnderscores(_)
CollapseUnderscores(s) ==
    IF Len(s) < 2 THEN s
    ELSE IF s[1] = "_" /\ s[2] = "_" THEN CollapseUnderscores(Tail(s))
    ELSE <<s[1]>> \o CollapseUnderscores(Tail(s))

RECURSIVE LStrip(_)
LStrip(s) ==
    IF s # <<>> /\ Head(s) \in StripChars THEN LStrip(Tail(s)) ELSE s

RECURSIVE RStrip(_)
RStrip(s) ==
    IF s # <<>> /\ s[Len(s)] \in StripChars
    THEN RStrip(SubSeq(s, 1, Len(s) - 1))
    ELSE s

sanitize(name) == RStrip(LStrip(CollapseUnderscores(ReplaceBad(name))))

\* the file of a profile, within the one slicer/vendor/type directory
profile_path(name) == sanitize(name)

KeyPrefix == <<"bambustudio", "/", "BBL", "/", "filament", "/">>

profile_key(name) == KeyPrefix \o name

-----------------------------------------------------------------------------
(* models.py: StoredProfile *)

Entry(ver, val) == [ver |-> ver, val |-> val]

HistoryOf(sp, key) ==
    IF key \in DOMAIN sp.settings THEN sp.settings[key] ELSE <<>>

get_latest(sp, key) ==
    LET versions == HistoryOf(sp, key)
    IN  IF versions = <<>> THEN NoneVal ELSE versions[Len(versions)].val

\* indexes of the entries whose version is <= the requested one
AtOrBefore(versions, version) ==
    {i \in 1..Len(versions) : KeyLeq(versions[i].ver, version)}

MaxOf(S) == CHOOSE m \in S : \A x \in S : x <= m

\* the loop keeps the value of the last entry, in dict order, that qualifies
get_at_version(sp, key, version) ==
    LET versions == HistoryOf(sp, key)
        hits == AtOrBefore(versions, version)
    IN  IF hits = {} THEN NoneVal ELSE versions[MaxOf(hits)].val

\* evaluate with "<" in place of "<=" in the version test
evaluate_strict(sp, version) ==
    LET before(h) == {i \in 1..Len(h) : KeyLess(h[i].ver, version)}
        found == {k \in DOMAIN sp.settings : before(sp.settings[k]) # {}}
    IN  [k \in found |-> sp.settings[k][MaxOf(before(sp.settings[k]))].val]

evaluate(sp, version) ==
    LET found == {k \in DOMAIN sp.settings :
                    AtOrBefore(sp.settings[k], version) # {}}
    IN  [k \in found |->
            sp.settings[k][MaxOf(AtOrBefore(sp.settings[k], version))].val]

-----------------------------------------------------------------------------
(* store.py: ProfileStore internals *)

META_KEYS == {"renamed_from"}

\* dict assignment d[ver] = val: in place when ver is a key, appended otherwise
SetEntry(versions, ver, val) ==
    IF \E i \in 1..Len(versions) : versions[i].ver = ver
    THEN [i \in 1..Len(versions) |->
            IF versions[i].ver = ver THEN Entry(ver, val) ELSE versions[i]]
    ELSE Append(versions, Entry(ver, val))

\* dict.update: SetEntry for each entry of newer, in order
RECURSIVE DictUpdate(_, _)
DictUpdate(versions, newer) ==
    IF newer = <<>> THEN versions
    ELSE DictUpdate(SetEntry(versions, Head(newer).ver, Head(newer).val),
                    Tail(newer))

ChangedKeys(stored, parsed) ==
    {k \in (DOMAIN parsed.settings) \ META_KEYS :
        Normalize(get_latest(stored, k)) # Normalize(parsed.settings[k])}

merge_version(stored, parsed, version) ==
    LET changed == ChangedKeys(stored, parsed)
    IN  [stored |->
            [stored EXCEPT
                !.last_seen = version,
                !.settings =
                    [k \in (DOMAIN stored.settings) \cup changed |->
                        IF k \in changed
                        THEN SetEntry(HistoryOf(stored, k), version,
                                      parsed.settings[k])
                        ELSE stored.settings[k]]],
         changed |-> changed]

create_stored(parsed, version) ==
    [name |-> parsed.name,
     first_seen |-> version,
     last_seen |-> version,
     renamed_from |-> NoneVal,
     settings |-> [k \in (DOMAIN parsed.settings) \ META_KEYS |->
                      <<Entry(version, parsed.settings[k])>>]]

\* None when the field is absent, None or the empty string
extract_renamed_from(settings) ==
    IF "renamed_from" \notin DOMAIN settings THEN NoneVal
    ELSE IF settings["renamed_from"] \in {NoneVal, <<>>} THEN NoneVal
    ELSE settings["renamed_from"]

merge_rename(new_profile, old_profile) ==
    [new_profile EXCEPT
        !.first_seen = old_profile.first_seen,
        !.renamed_from = old_profile.name,
        !.settings =
            [k \in (DOMAIN new_profile.settings) \cup (DOMAIN old_profile.settings) |->
                IF k \in DOMAIN old_profile.settings
                THEN IF k \in DOMAIN new_profile.settings
                     THEN DictUpdate(old_profile.settings[k],
                                     new_profile.settings[k])
                     ELSE old_profile.settings[k]
                ELSE new_profile.settings[k]]]

\* keys derived from the file stems on disk
list_profile_keys(st) == {profile_key(stem) : stem \in DOMAIN st}

update_meta(m, version) ==
    [versions |-> IF version \in Range(m.versions) THEN m.versions
                  ELSE Append(m.versions, version),
     last_ingested |-> version]

-----------------------------------------------------------------------------
(* store.py: ProfileStore.ingest_profiles *)

\* one iteration of "for p in profiles"
ingest_one(acc, p, version) ==
    LET path == profile_path(p.name)
        seen == acc.seen_keys \cup {profile_key(p.name)}
    IN  IF path \notin DOMAIN acc.store
        THEN LET stored == create_stored(p, version)
                 old_name == extract_renamed_from(p.settings)
                 renamed == /\ old_name # NoneVal
                            /\ profile_path(old_name) \in DOMAIN acc.store
                 merged == IF renamed
                           THEN merge_rename(stored,
                                    acc.store[profile_path(old_name)])
                           ELSE stored
                 kept == IF renamed
                         THEN Without(acc.store, profile_path(old_name))
                         ELSE acc.store
             IN  [store |-> Put(kept, path, merged),
                  added |-> Append(acc.added, p.name),
                  changed |-> acc.changed,
                  seen_keys |-> seen]
        ELSE LET existing == acc.store[path]
                 prev_last_seen == existing.last_seen
                 m == merge_version(existing, p, version)
             IN  [store |-> IF m.changed # {} \/ prev_last_seen # version
                            THEN Put(acc.store, path, m.stored)
                            ELSE acc.store,
                  added |-> acc.added,
                  changed |-> IF m.changed # {}
                              THEN Put(acc.changed, p.name, m.changed)
                              ELSE acc.changed,
                  seen_keys |-> seen]

RECURSIVE ingest_loop(_, _, _)
ingest_loop(acc, profiles, version) ==
    IF profiles = <<>> THEN acc
    ELSE ingest_loop(ingest_one(acc, Head(profiles), version),
                     Tail(profiles), version)

ingest_profiles(st, m, version, profiles) ==
    LET acc == ingest_loop([store |-> st, added |-> <<>>,
                            changed |-> EmptyMap, seen_keys |-> {}],
                           profiles, version)
        all_keys == list_profile_keys(acc.store)
    IN  [store |-> acc.store,
         meta |-> update_meta(m, version),
         report |-> [added |-> acc.added,
                     removed |-> {k \in all_keys : k \notin acc.seen_keys},
                     changed |-> acc.changed]]

-----------------------------------------------------------------------------
(* Inputs of the store operations *)

NameA == <<"A">>
NameB == <<"B">>
NameASlash == <<"A", "/">>

Names == {NameA, NameB, NameASlash}

Ver1 == <<"1", ".", "0">>
Ver2 == <<"2", ".", "0">>

StoreVersions == {Ver1, Ver2}

SettingKey == "k"

\* settings of a parsed profile: the key k absent or set, renamed_from absent
\* or naming profile A
ParsedSettings ==
    {[x \in D |-> IF x = "renamed_from" THEN NameA ELSE v] :
        D \in SUBSET {SettingKey, "renamed_from"},
        v \in {NoneVal, ValA, ValB}}

ParsedProfiles == [name : Names, settings : ParsedSettings]

Batches == UNION {[1..n -> ParsedProfiles] : n \in 0..MaxBatch}

-----------------------------------------------------------------------------
(* The store as a state machine: any sequence of ingest_profiles calls *)

NoCall == [version |-> NoneVal, profiles |-> <<>>]
NoReport == [added |-> <<>>, removed |-> {}, changed |-> EmptyMap]
NoMeta == [versions |-> <<>>, last_ingested |-> NoneVal]
NoOp == [name |-> "none"]

InitStore ==
    /\ store = EmptyMap
    /\ meta = NoMeta
    /\ call = NoCall
    /\ report = NoReport

InitResources ==
    /\ files = {}
    /\ manifest = EmptyMap
    /\ diskManifest = EmptyMap
    /\ removedRes = {}

InitCommon ==
    /\ InitStore
    /\ InitResources
    /\ ncalls = 0
    /\ log = <<>>
    /\ op = NoOp

\* the store and the resource store do not read the configuration
Init ==
    /\ InitCommon
    /\ config = NoneVal

IngestCall(version, profiles) ==
    LET r == ingest_profiles(store, meta, version, profiles)
    IN  /\ store' = r.store
        /\ meta' = r.meta
        /\ report' = r.report
        /\ call' = [version |-> version, profiles |-> profiles]
        /\ ncalls' = ncalls + 1
        /\ UNCHANGED <<resVars, log, op, config>>

IngestProfiles ==
    /\ ncalls < MaxCalls
    /\ \E version \in StoreVersions, profiles \in Batches :
        IngestCall(version, profiles)

Next == IngestProfiles

Spec == Init /\ [][Next]_vars

\* a first ingestion into the empty store
IngestFresh ==
    /\ ncalls = 0
    /\ \E version \in StoreVersions, profiles \in Batches :
        IngestCall(version, profiles)

SpecFresh == Init /\ [][IngestFresh]_vars

-----------------------------------------------------------------------------
(* Properties of the store *)

StoredProfiles == {store[path] : path \in DOMAIN store}

\* C1: in every stored profile, for every setting key, no two successive
\* entries of the history hold values equal under the canonical normalization.
C1_NoRedundantEntries ==
    \A sp \in StoredProfiles : \A k \in DOMAIN sp.settings :
        \A i \in 1..(Len(sp.settings[k]) - 1) :
            Normalize(sp.settings[k][i].val) # Normalize(sp.settings[k][i + 1].val)

\* C2: get_at_version(k, Q) is the value recorded at the greatest version
\* V <= Q among the entries of settings[k], and None when there is none.
C2_GetAtVersionGreatest ==
    \A sp \in StoredProfiles : \A k \in DOMAIN sp.settings :
        \A q \in StoreVersions :
            LET h == sp.settings[k]
                hits == AtOrBefore(h, q)
            IN  IF hits = {}
                THEN get_at_version(sp, k, q) = NoneVal
                ELSE \E i \in hits :
                        /\ \A j \in hits : KeyLeq(h[j].ver, h[i].ver)
                        /\ get_at_version(sp, k, q) = h[i].val

\* C3: every stored profile has version_key(first_seen) <= version_key(last_seen).
C3_FirstSeenLeqLastSeen ==
    \A sp \in StoredProfiles : KeyLeq(sp.first_seen, sp.last_seen)

AloneInFreshStore == call # NoCall /\ Len(call.profiles) = 1

\* C4 as stated: a profile p ingested at version V into an empty store is
\* stored, and evaluate(V) of the stored profile equals p.settings.
C4_RoundTripAllKeys ==
    AloneInFreshStore =>
        LET p == call.profiles[1]
        IN  /\ profile_path(p.name) \in DOMAIN store
            /\ evaluate(store[profile_path(p.name)], call.version) = p.settings

\* C4 amended: a profile p ingested alone at version V into an empty store is
\* stored, and evaluate(V) equals p.settings without the key renamed_from.
C4_RoundTripSettings ==
    AloneInFreshStore =>
        LET p == call.profiles[1]
        IN  /\ profile_path(p.name) \in DOMAIN store
            /\ evaluate(store[profile_path(p.name)], call.version)
                 = [k \in (DOMAIN p.settings) \ {"renamed_from"} |-> p.settings[k]]

C4_Witness ==
    /\ AloneInFreshStore
    /\ DOMAIN call.profiles[1].settings = {SettingKey, "renamed_from"}
    /\ call.profiles[1].settings[SettingKey] = ValB
    /\ DOMAIN store = {profile_path(call.profiles[1].name)}

\* the profiles of a call that would be stored under a new name taken over
\* from the stored profile named by their renamed_from
RenamesStored(p, st) ==
    /\ profile_path(p.name) \notin DOMAIN st
    /\ extract_renamed_from(p.settings) # NoneVal
    /\ profile_path(extract_renamed_from(p.settings)) \in DOMAIN st
    /\ st[profile_path(extract_renamed_from(p.settings))].name
         = extract_renamed_from(p.settings)

RenameClosure(p, version, old, st) ==
    /\ profile_path(old.name) \notin DOMAIN st
    /\ profile_path(p.name) \in DOMAIN st
    /\ LET succ == st[profile_path(p.name)]
       IN  /\ succ.first_seen = old.first_seen
           /\ succ.renamed_from = old.name
           /\ \A k \in DOMAIN old.settings :
                /\ k \in DOMAIN succ.settings
                /\ succ.settings[k] =
                     IF k \in (DOMAIN p.settings) \ META_KEYS
                     THEN old.settings[k] \o <<Entry(version, p.settings[k])>>
                     ELSE old.settings[k]

\* C5: when a call stores a profile that does not yet exist, with
\* renamed_from = X and a stored profile named X, then afterwards the
\* successor has X's first_seen, renamed_from = X, X's entries followed by
\* its own for every common key, X's history for the keys only X had, and
\* the file of X is gone.
C5_RenameClosure ==
    [][(call'.version # NoneVal /\ Len(call'.profiles) = 1
        /\ ncalls' = ncalls + 1
        /\ RenamesStored(call'.profiles[1], store))
       => RenameClosure(call'.profiles[1], call'.version,
              store[profile_path(extract_renamed_from(call'.profiles[1].settings))],
              store')]_vars

NamedInCall(name, profiles) ==
    \E i \in 1..Len(profiles) :
        \/ profiles[i].name = name
        \/ extract_renamed_from(profiles[i].settings) = name

\* C6: a stored profile that is not among the profiles of a later call, and
\* is not the predecessor of a rename in it, keeps its file and its content,
\* and its identity is listed in the call's report.removed.
C6_MissingProfileKept ==
    [][ncalls' = ncalls + 1 =>
        \A path \in DOMAIN store :
            ~NamedInCall(store[path].name, call'.profiles) =>
                /\ path \in DOMAIN store'
                /\ store'[path] = store[path]
                /\ profile_key(store[path].name) \in report'.removed]_vars

\* C7: a second call with the same version and the same profiles reports
\* nothing added and nothing changed and leaves profiles and metadata as
\* they were after the first call.
C7_IngestIdempotent ==
    [][(ncalls' = ncalls + 1 /\ call # NoCall /\ call' = call) =>
        /\ report'.added = <<>>
        /\ report'.changed = EmptyMap
        /\ store' = store
        /\ meta' = meta]_vars

-----------------------------------------------------------------------------
(* resources.py: ResourceStore *)

\* str.lower() on one character
Lower(c) ==
    CASE c = "A" -> "a" [] c = "B" -> "b" [] c = "C" -> "c" [] c = "D" -> "d"
      [] c = "E" -> "e" [] c = "F" -> "f" [] c = "G" -> "g" [] c = "H" -> "h"
      [] c = "I" -> "i" [] c = "J" -> "j" [] c = "K" -> "k" [] c = "L" -> "l"
      [] c = "M" -> "m" [] c = "N" -> "n" [] c = "O" -> "o" [] c = "P" -> "p"
      [] c = "Q" -> "q" [] c = "R" -> "r" [] c = "S" -> "s" [] c = "T" -> "t"
      [] c = "U" -> "u" [] c = "V" -> "v" [] c = "W" -> "w" [] c = "X" -> "x"
      [] c = "Y" -> "y" [] c = "Z" -> "z"
      [] OTHER -> c

LowerAll(s) == [i \in 1..Len(s) |-> Lower(s[i])]

\* Path.suffix: from the last dot of the name, when that dot is neither the
\* first nor the last character
PathSuffix(name) ==
    LET dots == {i \in 2..(Len(name) - 1) : name[i] = "."}
    IN  IF dots = {} THEN <<>> ELSE SubSeq(name, MaxOf(dots), Len(name))

RECURSIVE LStripDots(_)
LStripDots(s) ==
    IF s # <<>> /\ Head(s) = "." THEN LStripDots(Tail(s)) ELSE s

\* hashlib.sha256(content).hexdigest(): one digest per content
Sha256(content) == <<"sha256of">> \o content

ResFile(hash_hex, suffix) == [hash |-> hash_hex, suffix |-> suffix]

\* ResourceStore.store: the resulting directory, manifest and digest
res_store(fs, man, file) ==
    LET hash_hex == Sha256(file.content)
        dest == ResFile(hash_hex, LowerAll(PathSuffix(file.name)))
    IN  [files |-> fs \cup {dest},
         manifest |-> Put(man, hash_hex,
                          [filename |-> file.name,
                           size |-> Len(file.content),
                           type |-> LowerAll(LStripDots(PathSuffix(file.name)))]),
         hash |-> hash_hex]

\* ResourceStore.get_path: the set holding the path, empty for None
get_path(fs, man, hash_hex) ==
    IF hash_hex \notin DOMAIN man THEN {}
    ELSE {ResFile(hash_hex, <<".">> \o man[hash_hex].type)} \cap fs

\* ResourceStore.gc, save_manifest included
res_gc(fs, man, disk, referenced_hashes) ==
    LET removed == {h \in DOMAIN man : h \notin referenced_hashes}
        kept == [h \in (DOMAIN man) \ removed |-> man[h]]
    IN  [files |-> fs \ UNION {get_path(fs, man, h) : h \in removed},
         manifest |-> kept,
         disk |-> IF removed # {} THEN kept ELSE disk,
         removed |-> removed]

\* collect_resources: store every file in the order the walk yields them,
\* then save the manifest; map is {filename: hash}
RECURSIVE collect_loop(_, _)
collect_loop(acc, resources) ==
    IF resources = <<>> THEN acc
    ELSE LET r == res_store(acc.files, acc.manifest, Head(resources))
         IN  collect_loop([files |-> r.files,
                           manifest |-> r.manifest,
                           map |-> Put(acc.map, Head(resources).name, r.hash)],
                          Tail(resources))

collect_resources(fs, man, resources) ==
    LET acc == collect_loop([files |-> fs, manifest |-> man, map |-> EmptyMap],
                            resources)
    IN  [files |-> acc.files, manifest |-> acc.manifest,
         disk |-> acc.manifest, map |-> acc.map]

-----------------------------------------------------------------------------
(* The resource store as the program drives it: a ResourceStore is         *)
(* constructed, collect_resources stores files and saves the manifest,     *)
(* and gc runs with some set of referenced hashes.                         *)

MaxResOps == 3
MaxFiles == 2

Bytes1 == <<"x">>
Bytes2 == <<"y", "y">>

PngName == <<"t", ".", "p", "n", "g">>
PngUpperName == <<"T", ".", "P", "N", "G">>
StlName == <<"m", ".", "s", "t", "l">>

ResourceNames == {PngName, PngUpperName, StlName}

ResourceInputs == [name : ResourceNames, content : {Bytes1, Bytes2}]

ResourceWalks == UNION {[1..n -> ResourceInputs] : n \in 0..MaxFiles}

Hashes == {Sha256(Bytes1), Sha256(Bytes2)}

\* ResourceStore(resources_dir): the manifest is read from disk
ResOpen ==
    /\ ncalls < MaxResOps
    /\ manifest' = diskManifest
    /\ op' = [name |-> "open"]
    /\ ncalls' = ncalls + 1
    /\ UNCHANGED <<storeVars, files, diskManifest, removedRes, log, config>>

ResCollect ==
    /\ ncalls < MaxResOps
    /\ \E resources \in ResourceWalks :
        LET r == collect_resources(files, manifest, resources)
        IN  /\ files' = r.files
            /\ manifest' = r.manifest
            /\ diskManifest' = r.disk
            /\ op' = [name |-> "collect", resources |-> resources, map |-> r.map]
    /\ ncalls' = ncalls + 1
    /\ UNCHANGED <<storeVars, removedRes, log, config>>

ResGc ==
    /\ ncalls < MaxResOps
    /\ \E referenced \in SUBSET Hashes :
        LET r == res_gc(files, manifest, diskManifest, referenced)
        IN  /\ files' = r.files
            /\ manifest' = r.manifest
            /\ diskManifest' = r.disk
            /\ removedRes' = r.removed
            /\ op' = [name |-> "gc", referenced |-> referenced]
    /\ ncalls' = ncalls + 1
    /\ UNCHANGED <<storeVars, log, config>>

NextRes == ResOpen \/ ResCollect \/ ResGc

SpecRes == Init /\ [][NextRes]_vars

\* C10: after gc(referenced), every manifest entry and every resource file
\* left in the directory belongs to a hash in referenced, and every hash in
\* referenced that was stored before the call keeps its entry and its file.
C10_GcSound ==
    [][(ncalls' = ncalls + 1 /\ op'.name = "gc") =>
        /\ \A h \in DOMAIN manifest' : h \in op'.referenced
        /\ \A f \in files' : f.hash \in op'.referenced
        /\ \A h \in op'.referenced \cap DOMAIN manifest :
            /\ h \in DOMAIN manifest'
            /\ manifest'[h] = manifest[h]
            /\ {f \in files' : f.hash = h} = {f \in files : f.hash = h}]_vars

-----------------------------------------------------------------------------
(* versions.py: normalize_version, sort_versions, is_prerelease *)

StrMain == <<"m", "a", "i", "n">>
StrMaster == <<"m", "a", "s", "t", "e", "r">>
StrDevelop == <<"d", "e", "v", "e", "l", "o", "p">>
StrDev == <<"d", "e", "v">>
StrNightly == <<"n", "i", "g", "h", "t", "l", "y">>
StrLatest == <<"l", "a", "t", "e", "s", "t">>
StrVersionPrefix == <<"v", "e", "r", "s", "i", "o", "n", "_">>

Whitespace == {" ", "\t", "\n"}

RECURSIVE StripLeft(_)
StripLeft(s) ==
    IF s # <<>> /\ Head(s) \in Whitespace THEN StripLeft(Tail(s)) ELSE s

RECURSIVE StripRight(_)
StripRight(s) ==
    IF s # <<>> /\ s[Len(s)] \in Whitespace
    THEN StripRight(SubSeq(s, 1, Len(s) - 1))
    ELSE s

normalize_version(raw) ==
    LET s == StripRight(StripLeft(raw))
    IN  IF IsPrefixOf(StrVersionPrefix, LowerAll(s))
        THEN SubSeq(s, Len(StrVersionPrefix) + 1, Len(s))
        ELSE IF IsPrefixOf(<<"v">>, LowerAll(s))
             THEN Tail(s)
             ELSE s

\* sorted(versions, key=version_key): stable, so a version goes after the
\* versions already placed whose key is not greater
RECURSIVE InsertByKey(_, _)
InsertByKey(sorted, v) ==
    IF sorted = <<>> THEN <<v>>
    ELSE IF KeyLess(v, Head(sorted)) THEN <<v>> \o sorted
    ELSE <<Head(sorted)>> \o InsertByKey(Tail(sorted), v)

RECURSIVE SortedByKey(_)
SortedByKey(versions) ==
    IF versions = <<>> THEN <<>>
    ELSE InsertByKey(SortedByKey(SubSeq(versions, 1, Len(versions) - 1)),
                     versions[Len(versions)])

\* the list left as the listing gave it
unsorted_versions(versions) == versions

sort_versions(versions) == SortedByKey(versions)

PrereleaseWords ==
    {<<"a", "l", "p", "h", "a">>, <<"b", "e", "t", "a">>, <<"r", "c">>,
     <<"d", "e", "v">>, <<"p", "r", "e">>}

is_prerelease(version) ==
    \E w \in PrereleaseWords : Contains(LowerAll(version), w)

\* pipeline.py: ProfilePipeline._is_version_mutable
is_version_mutable(version) ==
    LET normalized == normalize_version(version)
    IN  \/ normalized \in {StrMain, StrMaster, StrDevelop, StrDev}
        \/ IsPrefixOf(StrNightly, normalized)

-----------------------------------------------------------------------------
(* resources.py: reference rewriting and referenced-hash discovery *)

RESOURCE_SETTING_KEYS == {"bed_model", "bed_texture", "thumbnail", "hotend_model"}

HashPrefix == <<"sha256:">>

rewrite_one(profile, resource_map) ==
    [profile EXCEPT !.settings =
        [k \in DOMAIN profile.settings |->
            IF /\ k \in RESOURCE_SETTING_KEYS
               /\ profile.settings[k] # NoneVal
               /\ profile.settings[k] # <<>>
               /\ profile.settings[k] \in DOMAIN resource_map
            THEN HashPrefix \o resource_map[profile.settings[k]]
            ELSE profile.settings[k]]]

rewrite_resource_refs(profiles, resource_map) ==
    [i \in 1..Len(profiles) |-> rewrite_one(profiles[i], resource_map)]

\* a scan that reads only the latest entry of each resource key
latest_referenced_hashes(st) ==
    UNION {{Tail(get_latest(st[path], k)) :
               k \in {j \in RESOURCE_SETTING_KEYS \cap DOMAIN st[path].settings :
                         IsPrefixOf(HashPrefix, get_latest(st[path], j))}} :
           path \in DOMAIN st}

collect_referenced_hashes(st) ==
    UNION {UNION {{Tail(st[path].settings[k][i].val) :
                      i \in {j \in 1..Len(st[path].settings[k]) :
                                IsPrefixOf(HashPrefix,
                                           st[path].settings[k][j].val)}} :
                  k \in RESOURCE_SETTING_KEYS \cap DOMAIN st[path].settings} :
           path \in DOMAIN st}

-----------------------------------------------------------------------------
(* download.py: source configurations, and what the repositories hold *)

Ver09 == <<"0", ".", "9">>
Ver100 == <<"1", ".", "0", "0">>
Tag09 == <<"v", "0", ".", "9">>
Tag1 == <<"v", "1", ".", "0">>
Tag100 == <<"v", "1", ".", "0", "0">>
Tag2 == <<"v", "2", ".", "0">>
TagRc == <<"v", "2", ".", "1", "-", "r", "c">>
Today == <<"2", "0", "2", "6", "-", "1", "1", "-", "0", "2">>

\* three kinds of source: tags (BambuStudio, OrcaSlicer, ElegooSlicer), INI
\* bundles on a branch (PrusaSlicer, SuperSlicer), branch only (Cura); the
\* minimum versions are scaled to the versions of the model
TagConfig ==
    [slicer |-> "bambustudio", branch |-> NoneVal, tag_pattern |-> TRUE,
     ini_bundle |-> FALSE, nightly_branch |-> StrMaster, min_version |-> Ver1]

IniConfig ==
    [slicer |-> "prusaslicer", branch |-> StrMain, tag_pattern |-> FALSE,
     ini_bundle |-> TRUE, nightly_branch |-> StrMain, min_version |-> Ver1]

BranchConfig ==
    [slicer |-> "cura", branch |-> StrMaster, tag_pattern |-> FALSE,
     ini_bundle |-> FALSE, nightly_branch |-> StrMain, min_version |-> NoneVal]

Configs == {TagConfig, IniConfig, BranchConfig}

\* tag_pattern ^v\d+
MatchesTagPattern(name) ==
    Len(name) >= 2 /\ name[1] = "v" /\ name[2] \in Digits

\* what a download yields once squashed and parsed: profiles and the
\* resource files beside them
ContentOld ==
    [profiles |-> <<[name |-> NameA,
                     settings |-> [k \in {SettingKey, "thumbnail"} |->
                         IF k = SettingKey THEN ValA ELSE PngName]]>>,
     resources |-> <<[name |-> PngName, content |-> Bytes1]>>]

ContentNew ==
    [profiles |-> <<[name |-> NameA,
                     settings |-> [k \in {SettingKey, "thumbnail"} |->
                         IF k = SettingKey THEN ValB ELSE PngName]],
                    [name |-> NameB,
                     settings |-> [k \in {SettingKey} |-> ValA]]>>,
     resources |-> <<[name |-> PngName, content |-> Bytes2],
                     [name |-> StlName, content |-> Bytes1]>>]

NoContent == [profiles |-> <<>>, resources |-> <<>>]

\* the content published under a released version
VersionContent(version) ==
    IF version_key(version)[1] >= 2 THEN ContentNew ELSE ContentOld

BranchContents == {ContentOld, ContentNew}

-----------------------------------------------------------------------------
(* pipeline.py: ProfilePipeline *)

\* the persistent state a pipeline operation works on, with the
\* ingest_profiles calls it has made so far
Current ==
    [store |-> store, meta |-> meta, files |-> files, manifest |-> manifest,
     disk |-> diskManifest, removedRes |-> removedRes, report |-> report,
     call |-> call, log |-> <<>>]

\* the state a pipeline run leaves: the stored profiles, the resources after
\* gc, and the ingest_profiles call it made
PipelineState(ing, g, requested, version, parsed, calls) ==
    [store |-> ing.store, meta |-> ing.meta, files |-> g.files,
     manifest |-> g.manifest, disk |-> g.disk, removedRes |-> g.removed,
     report |-> ing.report,
     call |-> [version |-> version, profiles |-> parsed],
     log |-> Append(calls, [requested |-> requested, version |-> version])]

\* _run_pipeline step 9: garbage collect the unreferenced resources
run_gc(col, ing, requested, version, parsed, calls) ==
    PipelineState(ing,
                  res_gc(col.files, col.manifest, col.disk,
                         collect_referenced_hashes(ing.store)),
                  requested, version, parsed, calls)

\* _run_pipeline step 8: ingest into the store
run_ingest(S, col, requested, version, parsed) ==
    run_gc(col, ingest_profiles(S.store, S.meta, version, parsed),
           requested, version, parsed, S.log)

\* _run_pipeline step 6b: rewrite resource refs when resources were collected
run_rewrite(S, col, requested, version, profiles) ==
    run_ingest(S, col, requested, version,
               IF col.map # EmptyMap
               THEN rewrite_resource_refs(profiles, col.map)
               ELSE profiles)

\* _run_pipeline step 7: determine the version string
run_version(plain, is_nightly, detected_version) ==
    LET resolved == IF plain \in {StrMain, StrMaster}
                    THEN IF detected_version # NoneVal
                         THEN detected_version ELSE Today
                    ELSE plain
    IN  IF is_nightly THEN StrNightly \o <<"-">> \o resolved ELSE resolved

\* _run_pipeline steps 2 to 9, once the download has succeeded
run_pipeline(S, version, is_nightly, content, detected_version) ==
    run_rewrite(S,
                collect_resources(S.files, S.disk, content.resources),
                version,
                run_version(normalize_version(version), is_nightly,
                            detected_version),
                content.profiles)

\* enumerate_github_tags: the listing, filtered by the tag pattern
enumerate_github_tags(listing) ==
    SelectSeq(listing, MatchesTagPattern)

\* [t for t in tags if not is_prerelease(t.raw)]
StableTags(tags) ==
    LET NotPre(t) == ~is_prerelease(t) IN SelectSeq(tags, NotPre)

\* tag_map[normalized].raw
RawOf(tags, normalized) ==
    CHOOSE t \in Range(tags) : normalize_version(t) = normalized

NormalizedOf(tags) == [i \in 1..Len(tags) |-> normalize_version(tags[i])]

\* _resolve_latest_version; None stands for the ValueError
resolve_latest_version(cfg, listing) ==
    IF cfg.branch # NoneVal /\ ~cfg.tag_pattern THEN cfg.branch
    ELSE LET tags == enumerate_github_tags(listing)
             stable == IF StableTags(tags) = <<>> THEN tags ELSE StableTags(tags)
             sorted_ver == sort_versions(NormalizedOf(stable))
         IN  IF tags = <<>>
             THEN cfg.branch
             ELSE RawOf(stable, sorted_ver[Len(sorted_ver)])

resolve_nightly_version(cfg) ==
    IF cfg.branch # NoneVal THEN cfg.branch ELSE cfg.nightly_branch

\* select_latest_ini_bundle / unpack_prusaslicer_bundles: the first bundle,
\* in directory order, with the greatest key
RECURSIVE latest_ini(_, _)
latest_ini(inis, best) ==
    IF inis = <<>> THEN best
    ELSE latest_ini(Tail(inis),
                    IF best = NoneVal \/ KeyLess(best, Head(inis))
                    THEN Head(inis) ELSE best)

\* download.py: _looks_like_branch
looks_like_branch(version) ==
    version \in {StrMain, StrMaster, StrDevelop, StrDev}

\* what download, squash and parse yield for a version of a source
Downloaded(cfg, version, env) ==
    IF cfg.ini_bundle
    THEN [profiles |-> IF latest_ini(env.inis, NoneVal) = NoneVal THEN <<>>
                       ELSE VersionContent(latest_ini(env.inis, NoneVal)).profiles,
          resources |-> env.head.resources]
    ELSE IF cfg.branch # NoneVal \/ looks_like_branch(version)
         THEN env.head
         ELSE VersionContent(normalize_version(version))

\* ProfilePipeline.ingest, for a version already resolved
ingest_resolved(S, cfg, version, is_nightly, env) ==
    IF ~is_version_mutable(version)
       /\ normalize_version(version) \in Range(S.meta.versions)
    THEN S
    ELSE IF env.fail = version
    THEN S
    ELSE run_pipeline(S, version, is_nightly, Downloaded(cfg, version, env),
                      IF cfg.ini_bundle THEN latest_ini(env.inis, NoneVal)
                      ELSE NoneVal)

pipeline_ingest(S, cfg, version, env) ==
    LET is_nightly == version = StrNightly
        resolved == IF version = StrLatest
                    THEN resolve_latest_version(cfg, env.tags)
                    ELSE IF is_nightly THEN resolve_nightly_version(cfg)
                    ELSE version
    IN  IF resolved = NoneVal THEN S
        ELSE ingest_resolved(S, cfg, resolved, is_nightly, env)


\* iter_ini_bundle_versions: the versions found in directory order, filtered
\* by min_version and sorted by key
iter_ini_bundle_versions(inis, min_version) ==
    LET AtLeastMin(v) == min_version = NoneVal \/ KeyLeq(min_version, v)
    IN  SortedByKey(SelectSeq(inis, AtLeastMin))

\* one iteration of the loop of ingest_all_ini_versions: parse, rewrite,
\* ingest
ini_stored(S, ver, parsed, ing) ==
    [S EXCEPT !.store = ing.store, !.meta = ing.meta, !.report = ing.report,
              !.call = [version |-> ver, profiles |-> parsed],
              !.log = Append(S.log, [requested |-> ver, version |-> ver])]

ini_ingest(S, ver, parsed) ==
    ini_stored(S, ver, parsed, ingest_profiles(S.store, S.meta, ver, parsed))

\* the loop of ingest_all_ini_versions; a version whose split or parse fails
\* is skipped
RECURSIVE ini_loop(_, _, _, _)
ini_loop(S, versions, resource_map, env) ==
    IF versions = <<>> THEN S
    ELSE ini_loop(IF env.fail = Head(versions) THEN S
                  ELSE ini_ingest(S, Head(versions),
                           IF resource_map # EmptyMap
                           THEN rewrite_resource_refs(
                                    VersionContent(Head(versions)).profiles,
                                    resource_map)
                           ELSE VersionContent(Head(versions)).profiles),
                  Tail(versions), resource_map, env)

\* ingest_all_ini_versions: the gc after the loop
ini_collected(done, g) ==
    [done EXCEPT !.files = g.files, !.manifest = g.manifest,
                 !.disk = g.disk, !.removedRes = g.removed]

ini_gc(done) ==
    ini_collected(done, res_gc(done.files, done.manifest, done.disk,
                               collect_referenced_hashes(done.store)))

\* ingest_all_ini_versions: resources collected once, then every version
ini_versions(S, col, version_groups, env) ==
    ini_gc(ini_loop([S EXCEPT !.files = col.files, !.manifest = col.manifest,
                              !.disk = col.disk],
                    version_groups, col.map, env))

ini_groups(S, cfg, env, version_groups) ==
    IF env.fail = cfg.branch \/ version_groups = <<>> THEN S
    ELSE ini_versions(S,
                      collect_resources(S.files, S.disk, env.head.resources),
                      version_groups, env)

ingest_all_ini_versions(S, cfg, env) ==
    ini_groups(S, cfg, env,
               iter_ini_bundle_versions(env.inis, cfg.min_version))

\* the loop of ingest_all_versions over the tags not yet in the store
RECURSIVE tag_loop(_, _, _, _, _)
tag_loop(S, cfg, new_versions, tags, env) ==
    IF new_versions = <<>> THEN S
    ELSE tag_loop(pipeline_ingest(S, cfg, RawOf(tags, Head(new_versions)), env),
                  cfg, Tail(new_versions), tags, env)

ingest_all_versions(S, cfg, env) ==
    IF cfg.ini_bundle THEN ingest_all_ini_versions(S, cfg, env)
    ELSE IF cfg.branch # NoneVal /\ ~cfg.tag_pattern
    THEN pipeline_ingest(S, cfg, StrLatest, env)
    ELSE LET stable_tags == StableTags(enumerate_github_tags(env.tags))
             AtLeastMin(v) == cfg.min_version = NoneVal
                              \/ KeyLeq(cfg.min_version, v)
             sorted_versions ==
                 SelectSeq(sort_versions(NormalizedOf(stable_tags)), AtLeastMin)
             NotStored(v) == v \notin Range(S.meta.versions)
             new_versions == SelectSeq(sorted_versions, NotStored)
         IN  tag_loop(S, cfg, new_versions, stable_tags, env)

-----------------------------------------------------------------------------
(* The pipeline as a state machine *)

MaxPipeOps == 2
MaxListing == 2

RawTags == {Tag09, Tag1, Tag100, Tag2, TagRc, StrNightly}
IniVersions == {Ver09, Ver1, Ver100, Ver2}

\* listings without repetition, in any order
Listings(S) ==
    {l \in UNION {[1..n -> S] : n \in 0..MaxListing} :
        \A i, j \in 1..Len(l) : i # j => l[i] # l[j]}

\* what the repository holds, and which download or parse fails, when an
\* operation runs; the parts an operation does not read are left empty

StrAll == <<"a", "l", "l">>

ReadsTags(cfg, version) == cfg.tag_pattern /\ version \in {StrLatest, StrAll}

ReadsHead(cfg, version) ==
    \/ cfg.branch # NoneVal
    \/ version = StrNightly
    \/ looks_like_branch(version)

Failing(cfg, version) ==
    IF cfg.ini_bundle
    THEN {cfg.branch} \cup (IF version = StrAll THEN {Ver1} ELSE {})
    ELSE IF version = StrAll /\ cfg.tag_pattern THEN {Tag1, Tag2}
    ELSE IF version = StrLatest /\ cfg.tag_pattern THEN {Tag2}
    ELSE IF version \in {StrLatest, StrAll} THEN {cfg.branch}
    ELSE IF version = StrNightly THEN {resolve_nightly_version(cfg)}
    ELSE {version}

Envs(cfg, version) ==
    [tags : IF ReadsTags(cfg, version) THEN Listings(RawTags) ELSE {<<>>},
     inis : IF cfg.ini_bundle THEN Listings(IniVersions) ELSE {<<>>},
     head : IF ReadsHead(cfg, version) THEN BranchContents ELSE {NoContent},
     fail : {NoneVal} \cup Failing(cfg, version)]

IngestArgs(cfg) ==
    {StrLatest, StrNightly} \cup (IF cfg.tag_pattern THEN {Tag1, Tag2} ELSE {})

InitPipe ==
    /\ InitCommon
    /\ config \in Configs

Install(S) ==
    /\ store' = S.store
    /\ meta' = S.meta
    /\ files' = S.files
    /\ manifest' = S.manifest
    /\ diskManifest' = S.disk
    /\ removedRes' = S.removedRes
    /\ report' = S.report
    /\ call' = S.call
    /\ log' = S.log

PipeIngest ==
    /\ ncalls < MaxPipeOps
    /\ \E version \in IngestArgs(config) : \E env \in Envs(config, version) :
        /\ Install(pipeline_ingest(Current, config, version, env))
        /\ op' = [name |-> "ingest", version |-> version, env |-> env]
    /\ ncalls' = ncalls + 1
    /\ UNCHANGED config

PipeIngestAllVersions ==
    /\ ncalls < MaxPipeOps
    /\ \E env \in Envs(config, StrAll) :
        /\ Install(ingest_all_versions(Current, config, env))
        /\ op' = [name |-> "ingest_all_versions", env |-> env]
    /\ ncalls' = ncalls + 1
    /\ UNCHANGED config

NextPipe == PipeIngest \/ PipeIngestAllVersions

SpecPipe == InitPipe /\ [][NextPipe]_vars

-----------------------------------------------------------------------------
(* Claims about the pipeline *)

\* the versions a listing names, as the store would record them
ListedVersions(cfg, env) ==
    IF cfg.ini_bundle THEN env.inis ELSE NormalizedOf(env.tags)

\* C8: in every pipeline ingestion path, no ingest_profiles call is made on
\* behalf of a version that is immutable and already listed in the slicer's
\* metadata when the operation starts.
C8_ImmutableListedSkipped ==
    [][ncalls' = ncalls + 1 =>
        \A i \in 1..Len(log') :
            \/ is_version_mutable(log'[i].requested)
            \/ normalize_version(log'[i].requested)
                   \notin Range(meta.versions)]_vars

C11_RefsInManifest ==
    \A path \in DOMAIN store :
        \A k \in RESOURCE_SETTING_KEYS \cap DOMAIN store[path].settings :
            \A i \in 1..Len(store[path].settings[k]) :
                IsPrefixOf(HashPrefix, store[path].settings[k][i].val) =>
                    /\ Tail(store[path].settings[k][i].val) \in DOMAIN manifest
                    /\ Tail(store[path].settings[k][i].val)
                           \in DOMAIN diskManifest

\* the garbage collection of the last ingestion removed a resource while a
\* stored profile references another
C11_Witness ==
    /\ removedRes # {}
    /\ \E path \in DOMAIN store :
           /\ "thumbnail" \in DOMAIN store[path].settings
           /\ \E i \in 1..Len(store[path].settings["thumbnail"]) :
                  IsPrefixOf(HashPrefix,
                             store[path].settings["thumbnail"][i].val)

-----------------------------------------------------------------------------
(* Claims about the resource store *)

\* C12: content addressing: files with identical bytes, whatever their names
\* or extensions, get the same digest, and every digest has a single file on
\* disk, which its manifest entry names.
C12_ContentAddressed ==
    /\ op.name = "collect" =>
           \A i, j \in 1..Len(op.resources) :
               op.resources[i].content = op.resources[j].content =>
                   op.map[op.resources[i].name] = op.map[op.resources[j].name]
    /\ \A f, g \in files : f.hash = g.hash => f = g

-----------------------------------------------------------------------------
(* conditions.py: the values of a printer configuration, and the string   *)
(* operations the evaluator uses                                           *)

\* a string literal as program text
Chars(s) == [i \in 1..Len(s) |-> SubSeq(s, i, i)]

\* Python values: str, float (held as its repr), list, None; Raised is an
\* exception on its way up
PyStr(s) == [t |-> "str", v |-> s]
PyFloat(s) == [t |-> "float", v |-> s]
PyList(l) == [t |-> "list", v |-> l]
PyNone == [t |-> "None", v |-> <<>>]
Raised(e) == [t |-> "raise", v |-> e]

RECURSIVE JoinWith(_, _)
JoinWith(parts, sep) ==
    IF parts = <<>> THEN <<>>
    ELSE IF Len(parts) = 1 THEN parts[1]
    ELSE parts[1] \o sep \o JoinWith(Tail(parts), sep)

\* repr of a list element, and str(value)
PyRepr(x) ==
    IF x.t = "str" THEN <<"'">> \o x.v \o <<"'">> ELSE x.v

PyToStr(x) ==
    IF x.t = "list"
    THEN <<"[">> \o JoinWith([i \in 1..Len(x.v) |-> PyRepr(x.v[i])],
                            <<",", " ">>) \o <<"]">>
    ELSE x.v

\* float(s) for the decimal notation digits[.digits], in thousandths; a
\* negative result stands for the ValueError
ParseFloat(s) ==
    LET dots == {i \in 1..Len(s) : s[i] = "."}
        whole == IF dots = {} THEN s ELSE SubSeq(s, 1, MaxOf(dots) - 1)
        frac == IF dots = {} THEN <<>> ELSE SubSeq(s, MaxOf(dots) + 1, Len(s))
        padded == SubSeq(frac \o <<"0", "0", "0">>, 1, 3)
    IN  IF /\ Cardinality(dots) <= 1
           /\ Len(whole) + Len(frac) > 0
           /\ Len(frac) <= 3
           /\ \A i \in 1..Len(s) : s[i] \in Digits \cup {"."}
        THEN DecimalValue(whole \o padded, 0)
        ELSE 0 - 1

MinOf(S) == CHOOSE m \in S : \A x \in S : m <= x

IsPrefixAt(p, s, i) ==
    i + Len(p) - 1 <= Len(s) /\ SubSeq(s, i, i + Len(p) - 1) = p

\* str.split(sep) and re.split of an alternation of literals: the text
\* between non-overlapping matches found from the left, from position
\* start on, empty parts kept
RECURSIVE SplitAt(_, _, _)
SplitAt(s, seps, start) ==
    LET hits == {i \in start..Len(s) : \E p \in seps : IsPrefixAt(p, s, i)}
        sep == CHOOSE p \in seps : IsPrefixAt(p, s, MinOf(hits))
    IN  IF hits = {} THEN <<SubSeq(s, start, Len(s))>>
        ELSE <<SubSeq(s, start, MinOf(hits) - 1)>>
                 \o SplitAt(s, seps, MinOf(hits) + Len(sep))

\* str.split(): the words between runs of whitespace
Words(s) ==
    LET NonEmpty(w) == w # <<>>
    IN  SelectSeq(SplitAt(s, {<<c>> : c \in Whitespace}, 1), NonEmpty)

Strip(s) == StripRight(StripLeft(s))

\* str.strip("/")
RECURSIVE StripSlashes(_)
StripSlashes(s) ==
    IF s # <<>> /\ Head(s) = "/" THEN StripSlashes(Tail(s))
    ELSE IF s # <<>> /\ s[Len(s)] = "/"
    THEN StripSlashes(SubSeq(s, 1, Len(s) - 1))
    ELSE s

CountOf(s, c) == Cardinality({i \in 1..Len(s) : s[i] = c})

\* re.match(pattern, text, re.DOTALL) for patterns made of literal
\* characters, '.', a starred character, and groups with neither a
\* quantifier nor an alternative, whose parentheses match the empty string;
\* the match is anchored at the start only
RECURSIVE RegexMatch(_, _)
RegexMatch(p, s) ==
    IF p = <<>> THEN TRUE
    ELSE IF p[1] \in {"(", ")"} THEN RegexMatch(Tail(p), s)
    ELSE IF Len(p) >= 2 /\ p[2] = "*"
    THEN \/ RegexMatch(SubSeq(p, 3, Len(p)), s)
         \/ /\ s # <<>>
            /\ p[1] \in {".", Head(s)}
            /\ RegexMatch(p, Tail(s))
    ELSE /\ s # <<>>
         /\ p[1] \in {".", Head(s)}
         /\ RegexMatch(Tail(p), Tail(s))

\* patterns re.compile rejects: nothing to repeat, unbalanced parenthesis,
\* unterminated character set
RegexInvalid(p) ==
    \/ p # <<>> /\ p[1] = "*"
    \/ CountOf(p, "(") # CountOf(p, ")")
    \/ CountOf(p, "[") # CountOf(p, "]")

-----------------------------------------------------------------------------
(* conditions.py: evaluate_printer_condition.get_value_from_config *)

WordChars ==
    Range(Chars("abcdefghijklmnopqrstuvwxyzABCDEFGHIJKLMNOPQRSTUVWXYZ_"))
        \cup Digits

StrPrusaslicer == Chars("prusaslicer")
StrNumExtruders == Chars("num_extruders")
StrExtrudersCount == Chars("extruders_count")
StrNozzleDiameter == Chars("nozzle_diameter")

NoIndex == 0 - 1

\* var_re.fullmatch(key): (?P<key>\w+)(?:\[(?P<index>[0-9]+)])?; a key of <<>>
\* stands for no match
ParseVar(key) ==
    LET n == IF \A i \in 1..Len(key) : key[i] \in WordChars THEN Len(key)
             ELSE (CHOOSE i \in 1..Len(key) :
                      /\ key[i] \notin WordChars
                      /\ \A j \in 1..(i - 1) : key[j] \in WordChars) - 1
        rest == SubSeq(key, n + 1, Len(key))
        digits == SubSeq(rest, 2, Len(rest) - 1)
    IN  IF n = 0 THEN [key |-> <<>>, index |-> NoIndex]
        ELSE IF rest = <<>> THEN [key |-> key, index |-> NoIndex]
        ELSE IF /\ Len(rest) >= 3
                /\ rest[1] = "[" /\ rest[Len(rest)] = "]"
                /\ \A i \in 1..Len(digits) : digits[i] \in Digits
        THEN [key |-> SubSeq(key, 1, n), index |-> DecimalValue(digits, 0)]
        ELSE [key |-> <<>>, index |-> NoIndex]

\* re.split("[;,]", value)
SplitList(value) ==
    IF value.t # "str" THEN Raised("TypeError")
    ELSE LET parts == SplitAt(value.v, {<<";">>, <<",">>}, 1)
         IN  PyList([i \in 1..Len(parts) |-> PyStr(parts[i])])

\* value[int(index)]
Subscript(value, index) ==
    IF value.t = "raise" THEN value
    ELSE IF value.t \notin {"list", "str"} THEN Raised("TypeError")
    ELSE IF index >= Len(value.v) THEN Raised("IndexError")
    ELSE IF value.t = "list" THEN value.v[index + 1]
    ELSE PyStr(<<value.v[index + 1]>>)

\* lines 64-72: a one-element list stands for its element unless the slicer
\* is prusaslicer; an index selects an element
Indexed(value, index, slicer) ==
    IF index = NoIndex
    THEN IF slicer # StrPrusaslicer /\ value.t = "list" /\ Len(value.v) = 1
         THEN value.v[1]
         ELSE value
    ELSE Subscript(IF slicer = StrPrusaslicer THEN SplitList(value) ELSE value,
                   index)

\* a key that is in the merged data
Lookup(key, merged_data, slicer) ==
    IF ParseVar(key).key \in DOMAIN merged_data
    THEN Indexed(merged_data[ParseVar(key).key], ParseVar(key).index, slicer)
    ELSE PyNone

\* lines 53-60: num_extruders falls back to extruders_count, then to the
\* number of nozzle diameters
NumExtruders(extruders_count, nozzle_diameters) ==
    IF extruders_count.t # "None" THEN extruders_count
    ELSE IF nozzle_diameters.t = "None" THEN PyNone
    ELSE IF nozzle_diameters.t = "raise" THEN nozzle_diameters
    ELSE IF nozzle_diameters.t # "str" THEN Raised("TypeError")
    ELSE [t |-> "int",
          v |-> <<CHOOSE d \in Digits :
                     DigitVal(d) = Len(SplitList(nozzle_diameters).v)>>]

get_value_from_config(key, merged_data, slicer) ==
    IF ParseVar(key).key = <<>> THEN PyNone
    ELSE IF ParseVar(key).key \in DOMAIN merged_data
    THEN Lookup(key, merged_data, slicer)
    ELSE IF key = StrNumExtruders
    THEN NumExtruders(Lookup(StrExtrudersCount, merged_data, slicer),
                      Lookup(StrNozzleDiameter, merged_data, slicer))
    ELSE PyNone

-----------------------------------------------------------------------------
(* conditions.py: _evaluate_single_condition; an evaluation yields "True", *)
(* "False", or the name of the exception it raises                         *)

PyBool(b) == IF b THEN "True" ELSE "False"

PyNot(r) == IF r = "True" THEN "False" ELSE IF r = "False" THEN "True" ELSE r

OPERATORS ==
    <<Chars("=~"), Chars("!~"), Chars("=="), Chars("!="),
      Chars(">="), Chars("<="), Chars(">"), Chars("<")>>

\* index in OPERATORS of the first operator found in the condition, 0 for none
FindOperator(condition) ==
    IF \E i \in 1..Len(OPERATORS) : Contains(condition, OPERATORS[i])
    THEN CHOOSE i \in 1..Len(OPERATORS) :
            /\ Contains(condition, OPERATORS[i])
            /\ \A j \in 1..(i - 1) : ~Contains(condition, OPERATORS[j])
    ELSE 0

remove_quotes(s) ==
    IF Strip(s) # <<>> /\ Head(Strip(s)) = "\"" /\ Strip(s)[Len(Strip(s))] = "\""
    THEN SubSeq(Strip(s), 2, Len(Strip(s)) - 1)
    ELSE Strip(s)

\* float(config_value): negative for the ValueError or TypeError
ToFloat(x) ==
    IF x.t = "str" THEN ParseFloat(Strip(x.v))
    ELSE IF x.t \in {"float", "int"} THEN ParseFloat(x.v)
    ELSE 0 - 1

Ordering(operator, lhs, rhs) ==
    IF lhs < 0 \/ rhs < 0 THEN "False"
    ELSE PyBool(CASE operator = Chars(">=") -> lhs >= rhs
                  [] operator = Chars("<=") -> lhs <= rhs
                  [] operator = Chars(">") -> lhs > rhs
                  [] OTHER -> lhs < rhs)

Matching(pattern, text) ==
    IF RegexInvalid(pattern) THEN "re.error"
    ELSE PyBool(RegexMatch(pattern, text))

\* lines 183-217: the comparison, once the config value is known
Compare(operator, config_value, check_value) ==
    IF config_value.t = "raise" THEN config_value.v
    ELSE IF config_value.t = "None" THEN "False"
    ELSE CASE operator = Chars("=~") ->
                  Matching(StripSlashes(Strip(check_value)),
                           PyToStr(config_value))
           [] operator = Chars("!~") ->
                  PyNot(Matching(StripSlashes(Strip(check_value)),
                                 PyToStr(config_value)))
           [] operator = Chars("==") ->
                  PyBool(PyToStr(config_value) = remove_quotes(check_value))
           [] operator = Chars("!=") ->
                  PyBool(PyToStr(config_value) # remove_quotes(check_value))
           [] OTHER ->
                  Ordering(operator, ToFloat(config_value),
                           ParseFloat(Strip(check_value)))

\* lines 171-174: no operator, the config value is truthy
Truthy(config_value) ==
    IF config_value.t = "raise" THEN config_value.v
    ELSE PyBool(/\ config_value.t = "str"
                /\ config_value.v \in {<<"1">>, Chars("true")})

\* lines 176-181: the operands of the operator
Operands(condition, operator, merged_data, slicer) ==
    IF Len(SplitAt(condition, {operator}, 1)) # 2 THEN "False"
    ELSE Compare(operator,
                 get_value_from_config(
                     Strip(SplitAt(condition, {operator}, 1)[1]),
                     merged_data, slicer),
                 SplitAt(condition, {operator}, 1)[2])

Stripped(condition, merged_data, slicer) ==
    IF LowerAll(condition) = Chars("true") THEN "True"
    ELSE IF LowerAll(condition) = Chars("false") THEN "False"
    ELSE IF FindOperator(condition) = 0
    THEN Truthy(get_value_from_config(condition, merged_data, slicer))
    ELSE Operands(condition, OPERATORS[FindOperator(condition)],
                  merged_data, slicer)

evaluate_single_condition(condition, merged_data, slicer) ==
    Stripped(Strip(condition), merged_data, slicer)

-----------------------------------------------------------------------------
(* conditions.py: _find_first_parenthesis_set and _evaluate_expression *)

NoParens == [start |-> 0, end |-> 0]

\* positions of the first balanced pair, parentheses between the slashes of
\* a regex that directly follows =~ or !~ skipped; NoParens for None. The
\* scan moves from one slash or parenthesis to the next, the characters
\* between them change nothing
RECURSIVE ParenScan(_, _, _, _, _)
ParenAt(string, idx, depth, in_regex, start_idx) ==
    IF in_regex \/ string[idx] = "/"
    THEN ParenScan(string, idx + 1, depth, in_regex, start_idx)
    ELSE IF string[idx] = "("
    THEN ParenScan(string, idx + 1, depth + 1, in_regex,
                   IF depth = 0 THEN idx ELSE start_idx)
    ELSE IF depth - 1 = 0 THEN [start |-> start_idx, end |-> idx]
    ELSE ParenScan(string, idx + 1, depth - 1, in_regex, start_idx)

ParenScan(string, from, depth, is_in_regex, start_idx) ==
    LET marks == {i \in from..Len(string) : string[i] \in {"/", "(", ")"}}
        idx == MinOf(marks)
    IN  IF marks = {} THEN NoParens
        ELSE ParenAt(string, idx, depth,
                     IF string[idx] # "/" THEN is_in_regex
                     ELSE IF is_in_regex THEN FALSE
                     ELSE /\ idx >= 3
                          /\ SubSeq(string, idx - 2, idx - 1)
                                 \in {Chars("=~"), Chars("!~")},
                     start_idx)

\* a scan that finds no pair
no_parenthesis_set(string) == NoParens

find_first_parenthesis_set(string) == ParenScan(string, 1, 0, FALSE, 0)

\* re.split(r" and | && | or | \|\|", condition)
LogicalSeparators ==
    {Chars(" and "), Chars(" && "), Chars(" or "), Chars(" ||")}

\* the operators, in order, among the words of the condition
LogicalOperators(condition) ==
    LET IsOperator(w) ==
            w \in {Chars("and"), Chars("&&"), Chars("or"), Chars("||")}
        words == SelectSeq(Words(condition), IsOperator)
    IN  [i \in 1..Len(words) |->
            IF words[i] \in {Chars("and"), Chars("&&")} THEN "and" ELSE "or"]

\* lines 121-131: one part, with its leading "! "
Term(part, merged_data, slicer) ==
    IF IsPrefixOf(Chars("! "), part)
    THEN PyNot(evaluate_single_condition(SubSeq(part, 3, Len(part)),
                                         merged_data, slicer))
    ELSE evaluate_single_condition(part, merged_data, slicer)

\* a fold that reads every operator as "or"
combine_or(prev_ret, oper, ret) ==
    PyBool(prev_ret = "True" \/ ret = "True")

\* lines 143-147
combine(prev_ret, oper, ret) ==
    IF oper = "and" THEN PyBool(prev_ret = "True" /\ ret = "True")
    ELSE PyBool(prev_ret = "True" \/ ret = "True")

\* the loop of lines 119-149; prev_ret is "None" before the first part
RECURSIVE PartsLoop(_, _, _, _, _, _)
PartStep(parts, operators, idx, prev_ret, ret, env) ==
    IF ret \notin {"True", "False"} THEN ret
    ELSE IF "or" \notin Range(operators) /\ ret = "False" THEN "False"
    ELSE IF "and" \notin Range(operators) /\ ret = "True" THEN "True"
    ELSE IF prev_ret = "None"
    THEN PartsLoop(parts, operators, idx + 1, ret, env.data, env.slicer)
    ELSE IF idx - 1 > Len(operators) THEN "IndexError"
    ELSE PartsLoop(parts, operators, idx + 1,
                   combine(prev_ret, operators[idx - 1], ret),
                   env.data, env.slicer)

PartsLoop(parts, operators, idx, prev_ret, merged_data, slicer) ==
    IF idx > Len(parts) THEN prev_ret
    ELSE PartStep(parts, operators, idx, prev_ret,
                  Term(Strip(parts[idx]), merged_data, slicer),
                  [data |-> merged_data, slicer |-> slicer])

\* lines 104-149: the condition once its parentheses are resolved
Logical(condition, merged_data, slicer) ==
    PartsLoop(SplitAt(condition, LogicalSeparators, 1),
              LogicalOperators(condition), 1, "None", merged_data, slicer)

RECURSIVE evaluate_expression(_, _, _)
RECURSIVE ResolveParens(_, _, _)

\* lines 96-100: the pair replaced by str(inner_result)
Replaced(condition, pair, inner_result, merged_data, slicer) ==
    IF inner_result \notin {"True", "False"} THEN inner_result
    ELSE ResolveParens(SubSeq(condition, 1, pair.start - 1)
                           \o Chars(inner_result)
                           \o SubSeq(condition, pair.end + 1, Len(condition)),
                       merged_data, slicer)

FoundParens(condition, pair, merged_data, slicer) ==
    IF pair = NoParens THEN Logical(condition, merged_data, slicer)
    ELSE Replaced(condition, pair,
                  evaluate_expression(
                      SubSeq(condition, pair.start + 1, pair.end - 1),
                      merged_data, slicer),
                  merged_data, slicer)

\* the loop of lines 89-100, then the rest of the function
ResolveParens(condition, merged_data, slicer) ==
    FoundParens(condition, find_first_parenthesis_set(condition),
                merged_data, slicer)

evaluate_expression(condition, merged_data, slicer) ==
    IF "(" \in Range(condition)
    THEN IF CountOf(condition, "(") # CountOf(condition, ")")
         THEN "ValueError"
         ELSE ResolveParens(condition, merged_data, slicer)
    ELSE IF ")" \in Range(condition) THEN "ValueError"
    ELSE Logical(condition, merged_data, slicer)

\* dict.update
Updated(defaults, printer_data) ==
    [k \in DOMAIN defaults \cup DOMAIN printer_data |->
        IF k \in DOMAIN printer_data THEN printer_data[k] ELSE defaults[k]]

evaluate_printer_condition(condition, printer_data, slicer, defaults) ==
    IF condition = <<>> \/ Strip(condition) = <<>> THEN "False"
    ELSE evaluate_expression(condition, Updated(defaults, printer_data),
                             slicer)

-----------------------------------------------------------------------------
(* The condition evaluator applied to conditions built from terms *)

MaxTerms == 3

StrBambustudio == Chars("bambustudio")

\* scenario 4 and its three printers; the fourth printer has a float value
PrinterD1 ==
    (StrNozzleDiameter :> PyList(<<PyFloat(Chars("0.4"))>>))
    @@ (Chars("printer_model") :> PyStr(Chars("X1 Carbon")))
    @@ (Chars("printer_settings_id") :> PyStr(Chars("other")))

PrinterD2 ==
    [PrinterD1 EXCEPT ![StrNozzleDiameter] = PyList(<<PyFloat(Chars("0.6"))>>)]

PrinterD3 ==
    [PrinterD2 EXCEPT ![Chars("printer_settings_id")] = PyStr(Chars("test"))]

PrinterD4 == PrinterD1 @@ (Chars("max_print_height") :> PyFloat(Chars("250.0")))

Printers == {PrinterD1, PrinterD2, PrinterD3, PrinterD4}

TermNozzle == Chars("nozzle_diameter[0] == 0.4")
TermModel == Chars("printer_model =~ /X1.*/")
TermSettingsId == Chars("printer_settings_id == \"test\"")

WellFormedTerms ==
    {TermNozzle, TermModel, TermSettingsId, Chars("! nozzle_diameter[0] == 0.4")}

\* a comparison with two operator occurrences, an unknown variable, an index
\* out of range, an index on a float, a non-numeric operand of an ordering
\* operator, an invalid regex
MalformedComparisons ==
    {Chars("printer_model == X1 == X1"),
     Chars("unknown == 1"),
     Chars("nozzle_diameter[5] == 0.4"),
     Chars("max_print_height[0] == 2"),
     Chars("printer_model >= 1"),
     Chars("printer_model =~ /*X/")}

MalformedTerms ==
    MalformedComparisons \cup {Chars("! unknown == 1")}

Terms == WellFormedTerms \cup MalformedTerms

\* the terms of the longer conditions
CoreTerms ==
    {TermNozzle, TermModel, TermSettingsId, Chars("unknown == 1"),
     Chars("! unknown == 1"), Chars("nozzle_diameter[5] == 0.4")}

TermsOf(n) == IF n <= 2 THEN Terms ELSE CoreTerms

Joiners == {Chars(" and "), Chars(" or "), Chars(" && "), Chars(" || ")}

JoinersOf(n) == IF n <= 2 THEN Joiners ELSE {Chars(" and "), Chars(" or ")}

Shapes == {"flat", "left", "right", "open", "close"}

RECURSIVE Joined(_, _)
Joined(terms, joiners) ==
    IF Len(terms) = 1 THEN terms[1]
    ELSE terms[1] \o joiners[1] \o Joined(Tail(terms), Tail(joiners))

\* the text of a condition: its terms joined in a row, with a pair of
\* parentheses around the first or the last two terms, or with one
\* parenthesis that has no partner
Condition(terms, joiners, shape) ==
    CASE shape = "left" ->
             <<"(">> \o terms[1] \o joiners[1] \o terms[2] \o <<")">>
                 \o (IF Len(terms) = 3 THEN joiners[2] \o terms[3] ELSE <<>>)
      [] shape = "right" ->
             (IF Len(terms) = 3 THEN terms[1] \o joiners[1] ELSE <<>>)
                 \o <<"(">> \o terms[Len(terms) - 1] \o joiners[Len(joiners)]
                 \o terms[Len(terms)] \o <<")">>
      [] shape = "open" -> <<"(">> \o Joined(terms, joiners)
      [] shape = "close" -> Joined(terms, joiners) \o <<")">>
      [] OTHER -> Joined(terms, joiners)

CondInputs ==
    UNION {[name : {"condition"},
            terms : [1..n -> TermsOf(n)],
            joiners : [1..(n - 1) -> JoinersOf(n)],
            shape : IF n = 1 THEN {"flat", "open", "close"} ELSE Shapes,
            printer_data : Printers,
            result : {"None"}] : n \in 1..MaxTerms}

InitCond ==
    /\ InitStore
    /\ InitResources
    /\ ncalls = 0
    /\ log = <<>>
    /\ config = NoneVal
    /\ op \in CondInputs

CondEvaluate ==
    /\ op.name = "condition"
    /\ op' = [op EXCEPT
                 !.name = "evaluate_printer_condition",
                 !.result = evaluate_printer_condition(
                                Condition(op.terms, op.joiners, op.shape),
                                op.printer_data, StrBambustudio, EmptyMap)]
    /\ UNCHANGED <<storeVars, resVars, ncalls, log, config>>

NextCond == CondEvaluate

SpecCond == InitCond /\ [][NextCond]_vars

-----------------------------------------------------------------------------
(* Claims about the condition evaluator *)

Evaluated == op.name = "evaluate_printer_condition"

\* the terms with every malformed one replaced by the literal false
MalformedAsFalse(terms) ==
    [i \in 1..Len(terms) |->
        IF terms[i] \in MalformedTerms THEN Chars("false") ELSE terms[i]]

\* C13: a parse error is raised exactly when the parentheses are unbalanced;
\* otherwise no exception is raised and every malformed term, negated or
\* not, contributes false to the result.
C13_MalformedTermsAreFalse ==
    Evaluated =>
        /\ op.result = "ValueError" <=> op.shape \in {"open", "close"}
        /\ op.shape \notin {"open", "close"} =>
               op.result = evaluate_printer_condition(
                               Condition(MalformedAsFalse(op.terms),
                                         op.joiners, op.shape),
                               op.printer_data, StrBambustudio, EmptyMap)

\* the value of each term of the condition, evaluated on its own
TermValues ==
    [i \in 1..Len(op.terms) |->
        evaluate_printer_condition(op.terms[i], op.printer_data,
                                   StrBambustudio, EmptyMap)]

IsAnd(joiner) == joiner \in {Chars(" and "), Chars(" && ")}

\* ((t1 op1 t2) op2 t3) ...
RECURSIVE LeftFold(_, _, _)
LeftFold(acc, values, joiners) ==
    IF values = <<>> THEN acc
    ELSE LeftFold(IF IsAnd(Head(joiners)) THEN acc /\ Head(values) = "True"
                  ELSE acc \/ Head(values) = "True",
                  Tail(values), Tail(joiners))

\* C14: for a parenthesis-free condition whose terms evaluate to booleans,
\* all-AND gives the conjunction of the terms, all-OR their disjunction, and
\* mixed operators the strict left-to-right fold, without precedence; with
\* mixed operators every term is evaluated, so a term that raises makes the
\* evaluation raise.
C14_LeftFold ==
    Evaluated /\ op.shape = "flat" =>
        LET values == TermValues
            all_and == \A i \in 1..Len(op.joiners) : IsAnd(op.joiners[i])
            all_or == \A i \in 1..Len(op.joiners) : ~IsAnd(op.joiners[i])
            boolean == \A i \in 1..Len(values) : values[i] \in {"True", "False"}
        IN  /\ boolean /\ all_and =>
                op.result = PyBool(\A i \in 1..Len(values) : values[i] = "True")
            /\ boolean /\ all_or =>
                op.result = PyBool(\E i \in 1..Len(values) : values[i] = "True")
            /\ boolean /\ ~all_and /\ ~all_or =>
                op.result = PyBool(LeftFold(values[1] = "True", Tail(values),
                                            op.joiners))
            /\ ~all_and /\ ~all_or =>
                (boolean <=> op.result \in {"True", "False"})

\* t1 or t2 and t3 with t1 true and t3 false: the fold gives false where
\* precedence of AND over OR would give true
C14_Witness ==
    /\ Evaluated
    /\ op.shape = "flat"
    /\ op.terms = <<TermModel, TermNozzle, TermSettingsId>>
    /\ op.joiners = <<Chars(" or "), Chars(" and ")>>
    /\ op.printer_data = PrinterD1
    /\ op.result = "False"

Scenario4 ==
    Chars("(nozzle_diameter[0] == 0.4 and printer_model =~ /X1.*/) or printer_settings_id == \"test\"")

\* C15: for slicer bambustudio the condition of scenario 4 is true for the
\* printer {nozzle_diameter: [0.4], printer_model: X1 Carbon,
\* printer_settings_id: other}, false when nozzle_diameter is [0.6], and true
\* when nozzle_diameter is [0.6] and printer_settings_id is test.
C15_Scenario4 ==
    Evaluated /\ Condition(op.terms, op.joiners, op.shape) = Scenario4 =>
        /\ op.printer_data = PrinterD1 => op.result = "True"
        /\ op.printer_data = PrinterD2 => op.result = "False"
        /\ op.printer_data = PrinterD3 => op.result = "True"

\* the condition of scenario 4 evaluated for the third printer
C15_Witness ==
    /\ Evaluated
    /\ Condition(op.terms, op.joiners, op.shape) = Scenario4
    /\ op.printer_data = PrinterD3
    /\ op.result = "True"

-----------------------------------------------------------------------------
(* ofd/vendor_map.py, index.py, ofd/mapper.py: the FILAMENT DB reconciler. *)
(* A JSON object is a function from its keys; a missing key is a key that  *)
(* is not in the DOMAIN.  Values are program strings.                      *)

UpperLetters == Range(Chars("ABCDEFGHIJKLMNOPQRSTUVWXYZ"))

\* the upper-case letter of every lower-case one
UpperOf ==
    [c \in {Lower(u) : u \in UpperLetters} |->
        CHOOSE u \in UpperLetters : Lower(u) = c]

\* str.upper(), one character
Upper(c) == IF c \in DOMAIN UpperOf THEN UpperOf[c] ELSE c

UpperAll(s) == [i \in 1..Len(s) |-> Upper(s[i])]

\* dict.get(k, default)
Get(d, k, default) == IF k \in DOMAIN d THEN d[k] ELSE default

\* truthiness of an optional string
Present(v) == v # NoneVal /\ v # <<>>

BRAND_PREFIX_OVERRIDES ==
    [brand_id \in {Chars("bambu_lab"), Chars("esun_3d")} |->
        IF brand_id = Chars("bambu_lab") THEN Chars("Bambu") ELSE Chars("eSUN")]

get_profile_prefixes(brand_id, brand_name) ==
    LET prefixes == IF brand_id \in DOMAIN BRAND_PREFIX_OVERRIDES
                    THEN <<BRAND_PREFIX_OVERRIDES[brand_id]>>
                    ELSE <<>>
    IN  IF brand_name # <<>> /\ brand_name \notin Range(prefixes)
        THEN Append(prefixes, brand_name)
        ELSE prefixes

\* str.lstrip("-+ ")
RECURSIVE LStripJoin(_)
LStripJoin(s) ==
    IF s # <<>> /\ Head(s) \in {"-", "+", " "} THEN LStripJoin(Tail(s)) ELSE s

compose_candidates(prefix, material, filament_name) ==
    LET material_upper == UpperAll(material)
        suffix == LStripJoin(SubSeq(filament_name, Len(material_upper) + 1,
                                    Len(filament_name)))
        support == IF IsPrefixOf(Chars("for "), LowerAll(filament_name))
                   THEN <<prefix \o Chars(" Support ") \o filament_name>>
                   ELSE <<>>
        stripped == IF /\ IsPrefixOf(material_upper, UpperAll(filament_name))
                       /\ suffix # <<>>
                    THEN <<prefix \o <<" ">> \o material_upper \o <<" ">>
                             \o suffix>>
                    ELSE <<>>
        named == IF filament_name = <<>> THEN <<>>
                 ELSE <<prefix \o <<" ">> \o material_upper \o <<" ">>
                          \o filament_name,
                        prefix \o <<" ">> \o material_upper \o <<"-">>
                          \o filament_name>>
                      \o support \o stripped
                      \o <<prefix \o <<" ">> \o filament_name>>
    IN  IF filament_name = <<>> \/ UpperAll(filament_name) = material_upper
        THEN Append(named, prefix \o <<" ">> \o material_upper)
        ELSE named

\* name.split(" @")[0]
base_name(name) == SplitAt(name, {Chars(" @")}, 1)[1]

\* ProfileIndex._by_slicer_id[slicer]: the keys, from the filament_id and
\* the setting_id of every indexed profile
slicer_id_keys(index, slicer) ==
    {p.filament_id : p \in {q \in Range(index[slicer]) : Present(q.filament_id)}}
    \cup
    {p.setting_id : p \in {q \in Range(index[slicer]) : Present(q.setting_id)}}

find_by_slicer_id_none(index, slicer, slicer_id) == <<>>

find_by_slicer_id(index, slicer, slicer_id) ==
    LET Has(p) == slicer_id \in {p.filament_id, p.setting_id}
    IN  IF slicer_id \in slicer_id_keys(index, slicer)
        THEN SelectSeq(index[slicer], Has)
        ELSE <<>>

\* the vendors of a slicer in the order the index first saw them
RECURSIVE VendorsOf(_)
VendorsOf(profiles) ==
    IF profiles = <<>> THEN <<>>
    ELSE LET front == VendorsOf(SubSeq(profiles, 1, Len(profiles) - 1))
             vendor == profiles[Len(profiles)].vendor
         IN  IF vendor \in Range(front) THEN front ELSE Append(front, vendor)

find_by_base_name_any_vendor(index, slicer, name) ==
    LET key == LowerAll(name)
        VendorEntry(vendor) ==
            LET Keyed(p) == /\ p.vendor = vendor
                            /\ LowerAll(base_name(p.name)) = key
            IN  SelectSeq(index[slicer], Keyed)
        vendors == VendorsOf(index[slicer])
        Found(entry) == entry[2] # <<>>
    IN  SelectSeq([i \in 1..Len(vendors) |->
                      <<vendors[i], VendorEntry(vendors[i])>>], Found)

is_proper_id(value) ==
    /\ Present(value)
    /\ ~Contains(value, Chars(" @"))
    /\ ~Contains(value, <<" ">>)

best_slicer_id(profiles) ==
    LET ByFilamentId(p) == is_proper_id(p.filament_id)
        BySettingId(p) == is_proper_id(p.setting_id)
        first == SelectSeq(profiles, ByFilamentId)
        second == SelectSeq(profiles, BySettingId)
    IN  IF first # <<>> THEN first[1].filament_id
        ELSE IF second # <<>> THEN second[1].setting_id
        ELSE NoneVal

\* sort(key=-len(name)): stable, longest name first
RECURSIVE LongestFirst(_)
LongestFirst(entries) ==
    IF entries = <<>> THEN <<>>
    ELSE LET longest ==
                 CHOOSE i \in 1..Len(entries) :
                     /\ \A j \in 1..Len(entries) :
                            Len(entries[j].name) <= Len(entries[i].name)
                     /\ \A j \in 1..(i - 1) :
                            Len(entries[j].name) < Len(entries[i].name)
             rest == [j \in 1..(Len(entries) - 1) |->
                         IF j < longest THEN entries[j] ELSE entries[j + 1]]
         IN  <<entries[longest]>> \o LongestFirst(rest)

build_generic_profile_index(index, slicers) ==
    [slicer \in Range(slicers) |->
        LET Generic(fp) ==
                /\ Contains(fp.name, Chars("Generic"))
                /\ ~Contains(fp.name, Chars(" @"))
                /\ Present(fp.filament_id)
                /\ ~Contains(fp.filament_id, <<" ">>)
                /\ fp.filament_type # <<>>
            generic == SelectSeq(index[slicer], Generic)
        IN  LongestFirst([i \in 1..Len(generic) |->
                [name |-> LowerAll(generic[i].name),
                 ft |-> UpperAll(generic[i].filament_type),
                 fid |-> generic[i].filament_id]])]

resolve_generic_id(generics, filament_type, filament_name) ==
    LET ft_upper == UpperAll(filament_type)
        name_lower == LowerAll(filament_name)
        prefix(g) == Chars("generic ") \o LowerAll(g.ft)
        suffix(g) ==
            IF IsPrefixOf(prefix(g), g.name)
            THEN Strip(SubSeq(g.name, Len(prefix(g)) + 1, Len(g.name)))
            ELSE <<>>
        Typed(g) == g.ft = ft_upper
        Hit(g) == suffix(g) # <<>> /\ Contains(name_lower, suffix(g))
        Base(g) == suffix(g) = <<>>
        typed == SelectSeq(generics, Typed)
        hits == SelectSeq(typed, Hit)
        bases == SelectSeq(typed, Base)
    IN  IF hits # <<>>
        THEN hits[1].fid
        ELSE IF bases # <<>> THEN bases[Len(bases)].fid
        ELSE NoneVal

\* every candidate of every prefix, in the order the two loops try them
RECURSIVE Candidates(_, _, _)
Candidates(prefixes, material, filament_name) ==
    IF prefixes = <<>> THEN <<>>
    ELSE compose_candidates(Head(prefixes), material, filament_name)
             \o Candidates(Tail(prefixes), material, filament_name)

\* the MappingResult of the first match
MappingResult(generic_profiles, dir, slicer, vendor, profiles, profile_base_name) ==
    [filament_path |-> dir.path,
     slicer |-> slicer,
     profile_name |-> profile_base_name,
     slicer_id |-> best_slicer_id(profiles),
     generic_id |->
         IF DOMAIN generic_profiles = {} THEN NoneVal
         ELSE resolve_generic_id(Get(generic_profiles, slicer, <<>>),
                                 UpperAll(dir.material), profile_base_name),
     vendor |-> vendor]

\* the matches of the first candidate that has any
FirstMatches(generic_profiles, dir, slicer, matches) ==
    LET Matched(found) == found # <<>>
        matched == SelectSeq(matches, Matched)
    IN  IF matched = <<>> THEN <<>>
        ELSE <<MappingResult(generic_profiles, dir, slicer,
                             matched[1][1][1], matched[1][1][2],
                             base_name(matched[1][1][2][1].name))>>

MatchesOf(index, slicer, candidates) ==
    [i \in 1..Len(candidates) |->
        find_by_base_name_any_vendor(index, slicer, candidates[i])]

\* the MappingResult in a sequence of its own, or the empty sequence for None
match_filament(index, generic_profiles, dir, filament_data, slicer) ==
    FirstMatches(generic_profiles, dir, slicer,
        MatchesOf(index, slicer,
            Candidates(get_profile_prefixes(dir.brand_id, dir.brand_name),
                       dir.material, Get(filament_data, "name", <<>>))))

MappingReport(updated, already_correct, conflicts, skipped) ==
    [updated |-> updated, already_correct |-> already_correct,
     conflicts |-> conflicts, skipped |-> skipped]

MappingConflict(filament_path, slicer, fld, existing, derived) ==
    [filament_path |-> filament_path, slicer |-> slicer, field |-> fld,
     existing |-> existing, derived |-> derived]

\* the end of the loop body: the conflicts, or the entry as already correct
\* or updated
classify(rpt, kept, conflicts, existing_name, existing_id, existing_generic_id) ==
    LET name_matches == existing_name = kept.profile_name
        id_matches == ~Present(kept.slicer_id) \/ existing_id = kept.slicer_id
        gid_matches == \/ ~Present(kept.generic_id)
                       \/ existing_generic_id = kept.generic_id
    IN  IF conflicts # <<>>
        THEN [rpt EXCEPT !.conflicts = @ \o conflicts]
        ELSE IF name_matches /\ id_matches /\ gid_matches
        THEN [rpt EXCEPT !.already_correct = Append(@, kept)]
        ELSE [rpt EXCEPT !.updated = Append(@, kept)]

\* the two checks of the loop body
check(rpt, result, slicer, existing_name, existing_id, existing_generic_id, existing_in_store) ==
    LET name_conflict ==
            Present(existing_name) /\ existing_name # result.profile_name
        id_differs == /\ Present(result.slicer_id)
                      /\ Present(existing_id)
                      /\ existing_id # result.slicer_id
    IN  classify(rpt,
                 IF id_differs /\ ~existing_in_store
                 THEN [result EXCEPT !.slicer_id = existing_id]
                 ELSE result,
                 (IF name_conflict
                  THEN <<MappingConflict(result.filament_path, slicer,
                                         "profile_name", existing_name,
                                         result.profile_name)>>
                  ELSE <<>>)
                 \o
                 (IF id_differs /\ existing_in_store
                  THEN <<MappingConflict(result.filament_path, slicer,
                                         "slicer_id", existing_id,
                                         result.slicer_id)>>
                  ELSE <<>>),
                 existing_name, existing_id, existing_generic_id)

\* the body of the slicer loop for one matched filament
compare(index, rpt, result, existing_slicer, slicer) ==
    check(rpt, result, slicer,
          Get(existing_slicer, "profile_name", NoneVal),
          Get(existing_slicer, "id", NoneVal),
          Get(existing_slicer, "generic_id", NoneVal),
          find_by_slicer_id(index, slicer,
                            Get(existing_slicer, "id", NoneVal)) # <<>>)

\* the slicer loop's body: a skip when nothing matched
compare_one(index, rpt, result, dir, filament_data, slicer) ==
    IF result = <<>>
    THEN [rpt EXCEPT !.skipped =
             Append(@, <<dir.path,
                         [brand_name |-> dir.brand_name,
                          material |-> dir.material,
                          name |-> Get(filament_data, "name", <<>>),
                          slicer |-> slicer]>>)]
    ELSE compare(index, rpt, result[1],
                 Get(Get(filament_data, "slicer_settings", EmptyMap),
                     slicer, EmptyMap),
                 slicer)

\* the loops over the filament directories and the slicers, flattened:
\* pairs is the sequence of <<directory, slicer>> in the order visited
RECURSIVE compare_all(_, _, _, _)
compare_all(index, generic_profiles, db, pairs) ==
    IF pairs = <<>> THEN MappingReport(<<>>, <<>>, <<>>, <<>>)
    ELSE compare_one(index,
                     compare_all(index, generic_profiles, db,
                                 SubSeq(pairs, 1, Len(pairs) - 1)),
                     match_filament(index, generic_profiles,
                                    pairs[Len(pairs)][1],
                                    db[pairs[Len(pairs)][1].path],
                                    pairs[Len(pairs)][2]),
                     pairs[Len(pairs)][1],
                     db[pairs[Len(pairs)][1].path],
                     pairs[Len(pairs)][2])

\* the slicer_ids block moved into slicer_settings and deleted
migrate(data) ==
    LET ids == data["slicer_ids"]
        settings == Get(data, "slicer_settings", EmptyMap)
        moved == [k \in DOMAIN settings \cup DOMAIN ids |->
                     LET ss == Get(settings, k, EmptyMap)
                     IN  IF k \in DOMAIN ids /\ "id" \notin DOMAIN ss
                         THEN Put(ss, "id", ids[k])
                         ELSE ss]
    IN  IF "slicer_ids" \notin DOMAIN data THEN data
        ELSE IF DOMAIN ids = {} THEN Without(data, "slicer_ids")
        ELSE Put(Without(data, "slicer_ids"), "slicer_settings", moved)

RECURSIVE apply_mappings(_, _)
apply_mappings(data, mappings) ==
    IF mappings = <<>> THEN data
    ELSE LET m == Head(mappings)
             settings == Get(data, "slicer_settings", EmptyMap)
             named == Put(Get(settings, m.slicer, EmptyMap),
                          "profile_name", m.profile_name)
             with_id == IF Present(m.slicer_id)
                        THEN Put(named, "id", m.slicer_id)
                        ELSE named
             ss == IF Present(m.generic_id)
                   THEN Put(with_id, "generic_id", m.generic_id)
                   ELSE with_id
         IN  apply_mappings(
                 Put(data, "slicer_settings", Put(settings, m.slicer, ss)),
                 Tail(mappings))

\* the paths the results name: by_path
paths_of(results) == {results[i].filament_path : i \in 1..Len(results)}

\* the FILAMENT DB after _write_updates(results)
write_updates(db, results) ==
    [path \in DOMAIN db |->
        LET At(r) == r.filament_path = path
        IN  IF path \in paths_of(results)
            THEN apply_mappings(migrate(db[path]), SelectSeq(results, At))
            ELSE db[path]]

\* the filament directories run() visits, then each with every slicer
RECURSIVE pairs_of(_, _)
pairs_of(dirs, slicers) ==
    IF dirs = <<>> THEN <<>>
    ELSE [i \in 1..Len(slicers) |-> <<Head(dirs), slicers[i]>>]
             \o pairs_of(Tail(dirs), slicers)

\* the outcome of a run: its report, the FILAMENT DB it leaves, and the
\* files it wrote
Outcome(rpt, db, written) ==
    [report |-> rpt, db |-> db, written |-> written]

report_of(data_dir, index, db, slicers, brand_filter) ==
    LET Visited(dir) ==
            brand_filter \in {NoneVal, <<>>} \/ dir.brand_id = brand_filter
    IN  compare_all(index, build_generic_profile_index(index, slicers), db,
                    pairs_of(SelectSeq(data_dir, Visited), slicers))

written_after(rpt, db, write) ==
    LET results == rpt.updated \o rpt.already_correct
    IN  IF write
        THEN Outcome(rpt, write_updates(db, results), paths_of(results))
        ELSE Outcome(rpt, db, {})

run_despite_conflicts(data_dir, index, db, slicers, dry_run, brand_filter) ==
    written_after(report_of(data_dir, index, db, slicers, brand_filter),
                  db, ~dry_run)

\* the end of run(): nothing is written on a conflict or in a dry run
finish(rpt, db, dry_run) ==
    written_after(rpt, db, rpt.conflicts = <<>> /\ ~dry_run)

run_despite_dry_run(data_dir, index, db, slicers, dry_run, brand_filter) ==
    finish(report_of(data_dir, index, db, slicers, brand_filter), db, FALSE)

run(data_dir, index, db, slicers, dry_run, brand_filter) ==
    finish(report_of(data_dir, index, db, slicers, brand_filter), db,
           dry_run)

-----------------------------------------------------------------------------
(* The reconciler as a state machine: a FILAMENT DB and a built index, and *)
(* runs of SlicerMapper.run over them.                                     *)

MaxRuns == 2

StrBBL == Chars("BBL")

FilamentProfile(name, filament_id, setting_id) ==
    [name |-> name, vendor |-> StrBBL, filament_id |-> filament_id,
     setting_id |-> setting_id, filament_type |-> Chars("PLA")]

ProfBasic ==
    FilamentProfile(Chars("Bambu PLA Basic @BBL X1C"), Chars("GFA00"),
                    Chars("GFSA00"))

\* a profile whose filament_id repeats its name and that has no setting_id
ProfBasicUnnumbered ==
    FilamentProfile(Chars("Bambu PLA Basic @BBL X1C"),
                    Chars("Bambu PLA Basic @BBL X1C"), NoneVal)

ProfMatte ==
    FilamentProfile(Chars("Bambu PLA Matte @BBL X1C"), Chars("GFA01"),
                    Chars("GFSA01"))

ProfGeneric ==
    FilamentProfile(Chars("Generic PLA"), Chars("GFL99"), Chars("GFSL99"))

\* built indexes: what each slicer's list_profiles gave, in order
Index(bambustudio, orcaslicer) ==
    [bambustudio |-> bambustudio, orcaslicer |-> orcaslicer]

Indexes ==
    {Index(<<ProfBasic, ProfMatte, ProfGeneric>>, <<>>),
     Index(<<ProfBasic>>, <<ProfBasic>>),
     Index(<<ProfBasicUnnumbered, ProfMatte, ProfGeneric>>, <<>>),
     Index(<<ProfMatte, ProfGeneric>>, <<ProfBasic>>)}

FilamentDir(path, brand_id, brand_name) ==
    [path |-> path, brand_id |-> Chars(brand_id),
     brand_name |-> Chars(brand_name), material |-> Chars("PLA")]

\* the filament directories under the data directory, sorted
DataDir ==
    <<FilamentDir("bambu_lab/PLA/basic", "bambu_lab", "Bambu Lab"),
      FilamentDir("bambu_lab/PLA/matte", "bambu_lab", "Bambu Lab"),
      FilamentDir("sunlu/PLA/basic", "sunlu", "SUNLU")>>

\* a JSON object with the key, one per value, or without it
Optional(key, values) == {EmptyMap} \cup {key :> v : v \in values}

SettingsOf(names, ids, generic_ids) ==
    {name @@ id @@ generic_id :
        name \in Optional("profile_name", names),
        id \in Optional("id", ids),
        generic_id \in Optional("generic_id", generic_ids)}

\* filament.json files: with a slicer_settings block for bambustudio or
\* without one, and with or without a legacy slicer_ids block
FilamentFiles(name, settings, legacy) ==
    {("name" :> Chars(name)) @@ slicer_settings @@ slicer_ids :
        slicer_settings \in
            Optional("slicer_settings", {"bambustudio" :> ss : ss \in settings}),
        slicer_ids \in
            Optional("slicer_ids", {"bambustudio" :> id : id \in legacy})}

StrBasic == Chars("Bambu PLA Basic")
StrMatte == Chars("Bambu PLA Matte")

BasicFiles ==
    FilamentFiles("Basic",
                  SettingsOf({StrBasic, Chars("Bambu PLA Basic OLD")},
                             {Chars("GFA00"), Chars("GFA01"),
                              Chars("EPLAB00")}, {})
                  \cup SettingsOf({StrBasic}, {Chars("GFA00")},
                                  {Chars("GFL99")}),
                  {})
    \cup FilamentFiles("Basic", SettingsOf({StrBasic}, {}, {}),
                       {Chars("GFA00")})

MatteFiles ==
    FilamentFiles("Matte", {("profile_name" :> StrMatte)
                                @@ ("id" :> Chars("GFA01"))}, {})
    \cup {("name" :> Chars("Matte"))
              @@ ("slicer_settings" :>
                      ("bambustudio" :> ("profile_name" :> StrMatte)))
              @@ ("slicer_ids" :> ("bambustudio" :> Chars("GFA01")))}

FilamentDBs ==
    {("bambu_lab/PLA/basic" :> basic) @@ ("bambu_lab/PLA/matte" :> matte)
        @@ ("sunlu/PLA/basic" :> ("name" :> Chars("Basic"))) :
        basic \in BasicFiles, matte \in MatteFiles}

SlicerLists == {<<"bambustudio">>, <<"bambustudio", "orcaslicer">>}

BrandFilters == {NoneVal, Chars("sunlu")}

\* what is known after a run
Ran(index, before, slicers, dry_run, brand_filter, outcome) ==
    [name |-> "run", index |-> index, before |-> before,
     slicers |-> slicers, dry_run |-> dry_run, brand_filter |-> brand_filter,
     db |-> outcome.db, report |-> outcome.report,
     written |-> outcome.written]

InitMapper ==
    /\ InitStore
    /\ InitResources
    /\ ncalls = 0
    /\ log = <<>>
    /\ config = NoneVal
    /\ op \in [name : {"filament_db"}, db : FilamentDBs, index : Indexes]

MapperRun ==
    /\ op.name \in {"filament_db", "run"}
    /\ ncalls < MaxRuns
    /\ \E slicers \in SlicerLists, dry_run \in BOOLEAN,
          brand_filter \in BrandFilters :
        op' = Ran(op.index, op.db, slicers, dry_run, brand_filter,
                  run(DataDir, op.index, op.db, slicers, dry_run,
                      brand_filter))
    /\ ncalls' = ncalls + 1
    /\ UNCHANGED <<storeVars, resVars, log, config>>

NextMapper == MapperRun

SpecMapper == InitMapper /\ [][NextMapper]_vars

MapperRan == op.name = "run"

-----------------------------------------------------------------------------
(* Claims about the reconciler *)

\* the filament.json files whose content the run changed
Modified == {path \in DOMAIN op.db : op.db[path] # op.before[path]}

HasConflicts == op.report.conflicts # <<>>

\* C16: a run that is not a dry run and records a conflict creates and
\* modifies no filament.json: every file is as it was before the run and
\* none was written, those of filaments without a conflict included.
C16_ConflictsAbort ==
    (MapperRan /\ ~op.dry_run /\ HasConflicts) =>
        /\ DOMAIN op.db = DOMAIN op.before
        /\ Modified = {}
        /\ op.written = {}

\* a run that is not a dry run recorded a conflict for one filament and
\* an update for another
C16_Witness ==
    /\ MapperRan
    /\ ~op.dry_run
    /\ \E i \in 1..Len(op.report.conflicts), j \in 1..Len(op.report.updated) :
           op.report.conflicts[i].filament_path
               # op.report.updated[j].filament_path

\* the (directory, slicer) pairs the run compared
Visited ==
    {pair \in Range(DataDir) \X Range(op.slicers) :
        op.brand_filter = NoneVal \/ pair[1].brand_id = op.brand_filter}

\* the id derived for a pair, NoneVal when nothing matched or no id is proper
DerivedId(dir, slicer) ==
    LET result == match_filament(
                      op.index,
                      build_generic_profile_index(op.index, op.slicers),
                      dir, op.before[dir.path], slicer)
    IN  IF result = <<>> THEN NoneVal ELSE result[1].slicer_id

SettingsId(data, slicer) ==
    Get(Get(Get(data, "slicer_settings", EmptyMap), slicer, EmptyMap),
        "id", NoneVal)

\* the derived and the existing id of the pair are present and differ
IdDisagrees(dir, slicer) ==
    /\ Present(DerivedId(dir, slicer))
    /\ Present(SettingsId(op.before[dir.path], slicer))
    /\ SettingsId(op.before[dir.path], slicer) # DerivedId(dir, slicer)

IdConflicts(dir, slicer) ==
    {i \in 1..Len(op.report.conflicts) :
        /\ op.report.conflicts[i].filament_path = dir.path
        /\ op.report.conflicts[i].slicer = slicer
        /\ op.report.conflicts[i].field = "slicer_id"}

InStore(dir, slicer) ==
    SettingsId(op.before[dir.path], slicer)
        \in slicer_id_keys(op.index, slicer)

\* C17: when the derived id and the existing slicer_settings[slicer].id are
\* present and differ, an existing id that is a key of the slicer-ID index
\* gives a conflict with field slicer_id; any other existing id gives no
\* such conflict and is still the id in the file after the run.
C17_CuratedIdKept ==
    MapperRan =>
        \A pair \in Visited :
            IdDisagrees(pair[1], pair[2]) =>
                IF InStore(pair[1], pair[2])
                THEN \E i \in IdConflicts(pair[1], pair[2]) :
                         /\ op.report.conflicts[i].existing
                                = SettingsId(op.before[pair[1].path], pair[2])
                         /\ op.report.conflicts[i].derived
                                = DerivedId(pair[1], pair[2])
                ELSE /\ IdConflicts(pair[1], pair[2]) = {}
                     /\ SettingsId(op.db[pair[1].path], pair[2])
                            = SettingsId(op.before[pair[1].path], pair[2])

\* a run wrote the file of a filament whose existing id differs from the
\* derived one and is not in the store
C17_Witness ==
    /\ MapperRan
    /\ \E pair \in Visited :
           /\ IdDisagrees(pair[1], pair[2])
           /\ ~InStore(pair[1], pair[2])
           /\ pair[1].path \in op.written

\* C18: a dry run modifies no file, and its report is the report of the
\* run on the same index and FILAMENT DB that is not a dry run.
C18_DryRun ==
    (MapperRan /\ op.dry_run) =>
        /\ Modified = {}
        /\ op.written = {}
        /\ op.report = run(DataDir, op.index, op.before, op.slicers, FALSE,
                           op.brand_filter).report

\* a dry run without conflicts reported an update, which the other run
\* writes
C18_Witness ==
    /\ MapperRan
    /\ op.dry_run
    /\ ~HasConflicts
    /\ op.report.updated # <<>>
    /\ run(DataDir, op.index, op.before, op.slicers, FALSE,
           op.brand_filter).written # {}

-----------------------------------------------------------------------------
(* pipeline.py, download.py: the working directory of an ingestion.  A     *)
(* path is the sequence of its names, and the file system is the set of    *)
(* the directories that exist.                                             *)

StrWork == <<"work">>

TempDirs == {<<"ofd-slicer-1">>, <<"ofd-slicer-2">>, <<"ofd-slicer-3">>}

\* tempfile.mkdtemp: a directory that did not exist
mkdtemp(dirs) == CHOOSE d \in TempDirs : d \notin dirs

\* shutil.rmtree(d): d and everything below it
rmtree(dirs, d) == {p \in dirs : ~IsPrefixOf(d, p)}

\* the working directory of a call: self.work_dir, made if missing, or a
\* fresh temporary one
acquire(work_dir, dirs) ==
    [work |-> IF work_dir # NoneVal THEN work_dir ELSE mkdtemp(dirs),
     created_temp |-> work_dir = NoneVal]

\* the finally clause of ingest and of ingest_all_ini_versions
release(w, dirs) ==
    IF w.created_temp /\ w.work \in dirs THEN rmtree(dirs, w.work) ELSE dirs

\* download_and_extract: output_dir / slicer is emptied and made anew,
\* whether or not the download then succeeds
extracting(work, dirs) ==
    rmtree(dirs, work \o <<"slicer">>) \cup {work, work \o <<"slicer">>}

\* what a call leaves: the directories, and the working directory it used
\* (None when it made none)
Left(dirs, used) == [dirs |-> dirs, used |-> used]

\* ProfilePipeline.ingest: the version after "latest" and "nightly" are
\* resolved; None stands for the ValueError
resolved_version(cfg, version, env) ==
    IF version = StrLatest THEN resolve_latest_version(cfg, env.tags)
    ELSE IF version = StrNightly THEN resolve_nightly_version(cfg)
    ELSE version

\* ingest leaves before it makes a working directory: resolving raised, or
\* the version is immutable and stored
already_ingested(S, resolved) ==
    \/ resolved = NoneVal
    \/ /\ ~is_version_mutable(resolved)
       /\ normalize_version(resolved) \in Range(S.meta.versions)

ingest_work(w, dirs) ==
    Left(release(w, extracting(w.work, dirs \cup {w.work})), w.work)

\* the directories ingest leaves, on every exit path: _run_pipeline
\* returning or raising ends in the same finally clause
ingest_dirs(S, cfg, version, env, work_dir, dirs) ==
    IF already_ingested(S, resolved_version(cfg, version, env))
    THEN Left(dirs, NoneVal)
    ELSE ingest_work(acquire(work_dir, dirs), dirs)

\* the loop of ingest_all_ini_versions: a _split_ directory per version,
\* removed when the iteration ends or fails
RECURSIVE split_dirs(_, _, _)
split_dirs(dirs, work, versions) ==
    IF versions = <<>> THEN dirs
    ELSE split_dirs(rmtree(dirs \cup {work \o <<"_split_">> \o Head(versions)},
                           work \o <<"_split_">> \o Head(versions)),
                    work, Tail(versions))

ini_work(w, dirs, looped, version_groups) ==
    Left(release(w, IF looped
                    THEN split_dirs(extracting(w.work, dirs \cup {w.work}),
                                    w.work, version_groups)
                    ELSE extracting(w.work, dirs \cup {w.work})),
         w.work)

\* the directories ingest_all_ini_versions leaves, on every exit path
ini_dirs(cfg, env, work_dir, dirs) ==
    ini_work(acquire(work_dir, dirs), dirs,
             /\ env.fail # cfg.branch
             /\ iter_ini_bundle_versions(env.inis, cfg.min_version) # <<>>,
             iter_ini_bundle_versions(env.inis, cfg.min_version))

-----------------------------------------------------------------------------
(* The pipeline with its working directories as a state machine *)

WorkDirs == {NoneVal, StrWork}

\* a pipeline as constructed: work_dir given or not, nothing on disk yet
InitWork ==
    /\ InitStore
    /\ InitResources
    /\ ncalls = 0
    /\ log = <<>>
    /\ config \in Configs
    /\ op \in [name : {"pipeline"}, work_dir : WorkDirs, dirs : {{}},
               used : {NoneVal}]

Worked(name, work_dir, left) ==
    [name |-> name, work_dir |-> work_dir, dirs |-> left.dirs,
     used |-> left.used]

WorkIngest ==
    /\ ncalls < MaxPipeOps
    /\ \E version \in IngestArgs(config) : \E env \in Envs(config, version) :
        /\ Install(pipeline_ingest(Current, config, version, env))
        /\ op' = Worked("ingest", op.work_dir,
                        ingest_dirs(Current, config, version, env,
                                    op.work_dir, op.dirs))
    /\ ncalls' = ncalls + 1
    /\ UNCHANGED config

WorkIngestAllIni ==
    /\ ncalls < MaxPipeOps
    /\ config.ini_bundle
    /\ \E env \in Envs(config, StrAll) :
        /\ Install(ingest_all_ini_versions(Current, config, env))
        /\ op' = Worked("ingest_all_ini_versions", op.work_dir,
                        ini_dirs(config, env, op.work_dir, op.dirs))
    /\ ncalls' = ncalls + 1
    /\ UNCHANGED config

NextWork == WorkIngest \/ WorkIngestAllIni

SpecWork == InitWork /\ [][NextWork]_vars

-----------------------------------------------------------------------------
(* Claims about the working directories *)

\* C19: once ingest or ingest_all_ini_versions has returned or raised, the
\* working directory it used for download and extraction does not exist,
\* and nothing is left below it.
C19_NoWorkDirLeft ==
    (op.name \in {"ingest", "ingest_all_ini_versions"} /\ op.used # NoneVal) =>
        \A p \in op.dirs : ~IsPrefixOf(op.used, p)

-----------------------------------------------------------------------------
(* brands.py, matching.py: matching a slicer's printer name to the         *)
(* catalogue.  A regular expression is the set of its matches in a text:   *)
(* pairs <<position, length>>, one per position, of the greedy match.      *)

\* re.sub and str.replace: the matches are replaced from the left, none
\* overlapping another
RECURSIVE Sub(_, _, _, _)
Sub(s, start, found, repl) ==
    LET hits == {hit \in found : hit[1] >= start}
        first == CHOOSE hit \in hits : \A other \in hits : hit[1] <= other[1]
    IN  IF hits = {} THEN SubSeq(s, start, Len(s))
        ELSE SubSeq(s, start, first[1] - 1) \o repl
                 \o Sub(s, first[1] + first[2], found, repl)

IsDigitAt(s, i) == i >= 1 /\ i <= Len(s) /\ s[i] \in Digits

\* a literal pattern
Literal(s, pat) ==
    {<<i, Len(pat)>> : i \in {j \in 1..Len(s) : IsPrefixAt(pat, s, j)}}

\* str.replace(old, new)
Replace(s, old, new) == Sub(s, 1, Literal(s, old), new)

\* the number of digits from position i on
DigitRun(s, i) ==
    IF IsDigitAt(s, i)
    THEN MinOf({j \in i..Len(s) : ~IsDigitAt(s, j + 1)}) - i + 1
    ELSE 0

\* _MMU_RE: mmu[0-9]s?
MMU_RE(s) ==
    {<<i, IF IsPrefixAt(<<"s">>, s, i + 4) THEN 5 ELSE 4>> :
        i \in {j \in 1..Len(s) :
                  IsPrefixAt(Chars("mmu"), s, j) /\ IsDigitAt(s, j + 3)}}

\* _BED_SIZE_RE: [0-9]+mm3?
BED_SIZE_RE(s) ==
    {<<i, DigitRun(s, i) + (IF IsPrefixAt(<<"3">>, s, i + DigitRun(s, i) + 2)
                            THEN 3 ELSE 2)>> :
        i \in {j \in 1..Len(s) :
                  /\ IsDigitAt(s, j)
                  /\ IsPrefixAt(Chars("mm"), s, j + DigitRun(s, j))}}

\* _VORON_VERSION_RE: v([0-9])
VORON_VERSION_RE(s) ==
    {<<i, 2>> : i \in {j \in 1..Len(s) : s[j] = "v" /\ IsDigitAt(s, j + 1)}}

\* -(?=[0-9])
DashBeforeDigit(s) ==
    {<<i, 1>> : i \in {j \in 1..Len(s) : s[j] = "-" /\ IsDigitAt(s, j + 1)}}

\* 3\.[0-9] and 4\.[0-9]
PointRelease(s, major) ==
    {<<i, 3>> : i \in {j \in 1..Len(s) :
                          /\ IsPrefixAt(<<major, ".">>, s, j)
                          /\ IsDigitAt(s, j + 2)}}

\* (?<=[0-9])mm
MmAfterDigit(s) ==
    {<<i, 2>> : i \in {j \in 1..Len(s) :
                          IsPrefixAt(Chars("mm"), s, j) /\ IsDigitAt(s, j - 1)}}

\* " [0-9]{3,}$"
TrailingNumber(s) ==
    {<<i, Len(s) - i + 1>> :
        i \in {j \in 1..Len(s) :
                  /\ s[j] = " "
                  /\ Len(s) - j >= 3
                  /\ \A k \in (j + 1)..Len(s) : s[k] \in Digits}}

direct_comparison(sp_name, slicer_name, brand) == sp_name = slicer_name

remove_dashes(sp_name, slicer_name, brand) ==
    Replace(sp_name, <<"-">>, <<" ">>) = Replace(slicer_name, <<"-">>, <<" ">>)

remove_spaces(sp_name, slicer_name, brand) ==
    Replace(sp_name, <<" ">>, <<>>) = Replace(slicer_name, <<" ">>, <<>>)

remove_parentheses(sp_name, slicer_name, brand) ==
    Replace(Replace(sp_name, <<"(">>, <<>>), <<")">>, <<>>)
        = Replace(Replace(slicer_name, <<"(">>, <<>>), <<")">>, <<>>)

remove_bltouch(sp_name, slicer_name, brand) ==
    sp_name = Strip(Replace(slicer_name, Chars("bltouch"), <<>>))

remove_mmu(sp_name, slicer_name, brand) ==
    sp_name = Strip(Sub(slicer_name, 1, MMU_RE(slicer_name), <<>>))

remove_input_shaper(sp_name, slicer_name, brand) ==
    sp_name = Strip(Replace(slicer_name, Chars("input shaper"), <<>>))

remove_bed_size(sp_name, slicer_name, brand) ==
    sp_name = Strip(Sub(slicer_name, 1, BED_SIZE_RE(slicer_name), <<>>))

\* the end of voron_version_convert, for the name without bed size and
\* with zero read as v0
voron_versioned(sp_name, slicer_name) ==
    /\ IsPrefixAt(<<"v">>, slicer_name, 1)
    /\ IsDigitAt(slicer_name, 2)
    /\ Strip(Replace(sp_name, Chars("voron"), <<>>))
           = Sub(slicer_name, 1, VORON_VERSION_RE(slicer_name),
                 (IF slicer_name[2] = "1" THEN Chars("v1") ELSE <<slicer_name[2]>>)
                     \o Chars(".x"))

voron_unsized(sp_name, slicer_name) ==
    voron_versioned(sp_name, Replace(slicer_name, Chars("zero"), Chars("v0")))

voron_version_convert(sp_name, slicer_name, brand) ==
    /\ brand = Chars("voron")
    /\ voron_unsized(sp_name,
                     Strip(Sub(slicer_name, 1, BED_SIZE_RE(slicer_name), <<>>)))

\* the loop of prusa_split_model_names over the parts
prusa_parts(sp_name, slicer_name, i3) ==
    \E part \in Range(SplitAt(slicer_name, {Chars("&&")}, 1)) :
        sp_name = (IF i3 THEN Chars("i3 ") ELSE <<>>) \o Strip(part)

prusa_without_mmu(sp_name, slicer_name, i3) ==
    prusa_parts(sp_name,
                Strip(Replace(slicer_name, Chars("input shaper"), <<>>)), i3)

prusa_without_i3(sp_name, slicer_name, i3) ==
    prusa_without_mmu(sp_name,
                      Strip(Sub(slicer_name, 1, MMU_RE(slicer_name), <<>>)),
                      i3)

prusa_split_model_names(sp_name, slicer_name, brand) ==
    /\ brand = Chars("prusa")
    /\ Contains(slicer_name, Chars("&&"))
    /\ prusa_without_i3(sp_name,
                        IF IsPrefixOf(Chars("i3"), slicer_name)
                        THEN Strip(SubSeq(slicer_name, 3, Len(slicer_name)))
                        ELSE slicer_name,
                        IsPrefixOf(Chars("i3"), slicer_name))

sovol_split_model_names(sp_name, slicer_name, brand) ==
    /\ brand = Chars("sovol")
    /\ Contains(slicer_name, <<"/">>)
    /\ \E part \in Range(SplitAt(
                       Strip(Replace(slicer_name, Chars("bltouch"), <<>>)),
                       {<<"/">>}, 1)) :
           sp_name = Strip(part)

\* the substitutions of ratrig_vcore, in the order made
RatrigPoint(s, major) == Sub(s, 1, PointRelease(s, major), <<major>>)

RatrigMm(s) == Sub(s, 1, MmAfterDigit(s), <<>>)

RatrigDash(s) == Sub(s, 1, DashBeforeDigit(s), <<" ">>)

ratrig_vcore(sp_name, slicer_name, brand) ==
    /\ brand = Chars("rat rig")
    /\ IsPrefixOf(Chars("v-core"), slicer_name)
    /\ RatrigMm(RatrigPoint(
           Replace(Replace(sp_name, <<"(">>, <<>>), <<")">>, <<>>), "4"))
       = Replace(Replace(
             RatrigMm(RatrigPoint(RatrigPoint(RatrigDash(
                 Replace(Replace(slicer_name, Chars("corexy "), <<>>),
                         Chars("hybrid "), <<>>)), "3"), "4")),
             Chars(" copy mode"), <<>>), Chars(" mirror mode"), <<>>)

alternate_remove_bed_size(sp_name, slicer_name, brand) ==
    sp_name = Sub(slicer_name, 1, TrailingNumber(slicer_name), <<>>)

\* whether any algorithm of CHECK_MODEL_ALGOS matches
check_model_algos(sp_name, slicer_name, brand) ==
    \/ direct_comparison(sp_name, slicer_name, brand)
    \/ remove_dashes(sp_name, slicer_name, brand)
    \/ remove_spaces(sp_name, slicer_name, brand)
    \/ remove_parentheses(sp_name, slicer_name, brand)
    \/ remove_bltouch(sp_name, slicer_name, brand)
    \/ remove_mmu(sp_name, slicer_name, brand)
    \/ remove_input_shaper(sp_name, slicer_name, brand)
    \/ remove_bed_size(sp_name, slicer_name, brand)
    \/ voron_version_convert(sp_name, slicer_name, brand)
    \/ prusa_split_model_names(sp_name, slicer_name, brand)
    \/ sovol_split_model_names(sp_name, slicer_name, brand)
    \/ ratrig_vcore(sp_name, slicer_name, brand)
    \/ alternate_remove_bed_size(sp_name, slicer_name, brand)

\* BRAND_MAPS[SlicerType.BAMBUSTUDIO]
BrandPairs ==
    {<<"ratrig", "rat rig">>, <<"biqu", "bigtreetech">>,
     <<"artillery", "artillery 3d">>, <<"anker", "ankermake">>,
     <<"qidi", "qidi tech">>, <<"bbl", "bambu lab">>,
     <<"twotrees", "two trees">>, <<"positron3d", "positron 3d">>,
     <<"folgertech", "folger tech">>, <<"flyingbear", "flying bear">>}

BRAND_MAP ==
    [key \in {Chars(pair[1]) : pair \in BrandPairs} |->
        Chars((CHOOSE pair \in BrandPairs : Chars(pair[1]) = key)[2])]

\* str.find, from 1; 0 for -1
Find(s, pat) ==
    IF Contains(s, pat)
    THEN MinOf({i \in 1..Len(s) : IsPrefixAt(pat, s, i)})
    ELSE 0

strip_brand_from_name(name, brand, original_brand) ==
    LET name_lower == LowerAll(name)
    IN  IF Find(name_lower, brand) # 0
        THEN Strip(SubSeq(name_lower, Find(name_lower, brand) + Len(brand),
                          Len(name_lower)))
        ELSE IF /\ Present(original_brand)
                /\ original_brand # brand
                /\ Find(name_lower, original_brand) # 0
        THEN Strip(SubSeq(name_lower,
                          Find(name_lower, original_brand)
                              + Len(original_brand),
                          Len(name_lower)))
        ELSE name_lower

\* re.escape(brand) | re.escape(old_brand): the brand is tried first
BrandPattern(s, brand, old_brand) ==
    {<<i, IF IsPrefixAt(brand, s, i) THEN Len(brand) ELSE Len(old_brand)>> :
        i \in {j \in 1..Len(s) :
                  \/ IsPrefixAt(brand, s, j)
                  \/ Present(old_brand) /\ IsPrefixAt(old_brand, s, j)}}

\* a catalogue name or slicer profile name without the brand
without_brand(s, brand, old_brand) ==
    IF Contains(s, brand) \/ (Present(old_brand) /\ Contains(s, old_brand))
    THEN Strip(Sub(s, 1, BrandPattern(s, brand, old_brand), <<>>))
    ELSE s

\* match_printer_model once the brand is mapped and the name stripped
match_models(sp_models, sp_slicer_names, brand, old_brand, printer_name) ==
    {model.id : model \in
        {sp \in Range(sp_models) :
            /\ sp.brand = brand
            /\ check_model_algos(without_brand(sp.name, brand, old_brand),
                                 printer_name, brand)}}
    \cup
    {model_id \in DOMAIN sp_slicer_names :
        \E spn \in Range(sp_slicer_names[model_id]) :
            printer_name = without_brand(spn, brand, old_brand)}

match_mapped(sp_models, sp_brands, sp_slicer_names, brand, old_brand, printer_name) ==
    IF brand \notin Range(sp_brands) THEN {}
    ELSE match_models(sp_models, sp_slicer_names, brand, old_brand,
                      strip_brand_from_name(printer_name, brand, old_brand))

match_printer_model(sp_models, sp_brands, sp_slicer_names, brand, printer_name, brand_map) ==
    IF LowerAll(brand) \in DOMAIN brand_map
    THEN match_mapped(sp_models, sp_brands, sp_slicer_names,
                      brand_map[LowerAll(brand)], LowerAll(brand),
                      LowerAll(Strip(printer_name)))
    ELSE match_mapped(sp_models, sp_brands, sp_slicer_names,
                      LowerAll(brand), NoneVal,
                      LowerAll(Strip(printer_name)))

-----------------------------------------------------------------------------
(* The matcher as a state machine: a catalogue, a vendor and a printer     *)
(* name, and one call of match_printer_model.                              *)

SpModel(id, brand, name) == [id |-> id, brand |-> Chars(brand), name |-> Chars(name)]

\* the catalogue of scenario 5
Scenario5Models == <<SpModel(42, "bambu lab", "X1 Carbon")>>

LowercaseModels ==
    <<SpModel(42, "bambu lab", "x1 carbon"),
      SpModel(43, "bambu lab", "bambu lab p1s"),
      SpModel(7, "prusa", "i3 mk3s"),
      SpModel(8, "prusa", "mini"),
      SpModel(9, "voron", "voron 2.x"),
      SpModel(10, "sovol", "sv06"),
      SpModel(11, "rat rig", "v-core 3 300"),
      SpModel(12, "creality", "ender-3 v2")>>

Catalogues == {Scenario5Models, LowercaseModels}

\* the lowercased brand names of a catalogue
BrandsOf(sp_models) ==
    [i \in 1..Len(sp_models) |-> LowerAll(sp_models[i].brand)]

SlicerNames ==
    {EmptyMap, 43 :> <<Chars("bambu lab p1s 0.4 nozzle")>>}

Vendors ==
    {Chars("BBL"), Chars("Prusa"), Chars("Voron"), Chars("Sovol"),
     Chars("RatRig"), Chars("Creality"), Chars("Unknown")}

StrScenario5 == Chars("Bambu Lab X1 Carbon (0.4 nozzle)")

PrinterNames ==
    {StrScenario5, Chars("Bambu Lab X1 Carbon"), Chars("Bambu Lab (X1 Carbon)"),
     Chars("X1-Carbon"), Chars("Bambu Lab P1S 0.4 nozzle"),
     Chars("i3 MK3S && MK3S+ MMU2S"), Chars("MINI Input Shaper"),
     Chars("Voron v2 250mm3"), Chars("SV06 / SV06 Plus BLTouch"),
     Chars("V-Core-3 300mm"), Chars("Ender-3 V2 220"), Chars(" MK3S MMU3 ")}

InitMatch ==
    /\ InitStore
    /\ InitResources
    /\ ncalls = 0
    /\ log = <<>>
    /\ config = NoneVal
    /\ op \in [name : {"printer"}, sp_models : Catalogues,
               sp_slicer_names : SlicerNames, brand : Vendors,
               printer_name : PrinterNames, ids : {{}}]

MatchPrinter ==
    /\ op.name = "printer"
    /\ op' = [op EXCEPT
                 !.name = "match_printer_model",
                 !.ids = match_printer_model(op.sp_models,
                                             BrandsOf(op.sp_models),
                                             op.sp_slicer_names, op.brand,
                                             op.printer_name, BRAND_MAP)]
    /\ UNCHANGED <<storeVars, resVars, ncalls, log, config>>

NextMatch == MatchPrinter

SpecMatch == InitMatch /\ [][NextMatch]_vars

-----------------------------------------------------------------------------
(* Claims about the matcher *)

\* C20: scenario 5: with the catalogue {id 42, brand bambu lab, name
\* X1 Carbon} and the alias bbl -> bambu lab, vendor BBL and printer name
\* 'Bambu Lab X1 Carbon (0.4 nozzle)' match exactly the model 42.
C20_Scenario5 ==
    (/\ op.name = "match_printer_model"
     /\ op.sp_models = Scenario5Models
     /\ op.sp_slicer_names = EmptyMap
     /\ op.brand = Chars("BBL")
     /\ op.printer_name = StrScenario5) => op.ids = {42}

-----------------------------------------------------------------------------
(* versions.py as a pure function: sort_versions on lists of normalized
   version strings *)

MaxVersions == 3

RawVersions ==
    {Chars("v1.0"), Chars("v01.0"), Chars("1.0.0"), Chars("version_1.10"),
     Chars("1.9"), Chars("2.0-rc1")}

NormalizedVersions == {normalize_version(raw) : raw \in RawVersions}

VersionLists ==
    UNION {[1..n -> NormalizedVersions] : n \in 1..MaxVersions}

InitVersions ==
    /\ InitStore
    /\ InitResources
    /\ ncalls = 0
    /\ log = <<>>
    /\ config = NoneVal
    /\ op \in [name : {"versions"}, versions : VersionLists,
               sorted : {<<>>}]

SortVersions ==
    /\ op.name = "versions"
    /\ op' = [op EXCEPT !.name = "sort_versions",
                        !.sorted = sort_versions(op.versions)]
    /\ UNCHANGED <<storeVars, resVars, ncalls, log, config>>

NextVersions == SortVersions

SpecVersions == InitVersions /\ [][NextVersions]_vars

-----------------------------------------------------------------------------
(* Claims about the version ordering *)

\* exactly one of key(a) < key(b), a = b, key(a) > key(b)
Trichotomy(a, b) ==
    /\ KeyLess(a, b) \/ a = b \/ KeyLess(b, a)
    /\ ~(KeyLess(a, b) /\ a = b)
    /\ ~(KeyLess(b, a) /\ a = b)
    /\ ~(KeyLess(a, b) /\ KeyLess(b, a))

CountIn(s, x) == Cardinality({i \in 1..Len(s) : s[i] = x})

IsPermutation(s, t) ==
    Len(s) = Len(t) /\ \A x \in Range(s) \cup Range(t) : CountIn(s, x) = CountIn(t, x)

NonDecreasing(s) == \A i \in 1..(Len(s) - 1) : KeyLeq(s[i], s[i + 1])

\* C21: the version ordering is total on normalized version strings: of
\* key(a) < key(b), a = b, key(a) > key(b) exactly one holds for any two of
\* them, and sort_versions returns a permutation of its input that is
\* non-decreasing under version_key.
C21_TotalOrder ==
    op.name = "sort_versions" =>
        /\ \A a, b \in Range(op.versions) : Trichotomy(a, b)
        /\ IsPermutation(op.versions, op.sorted)
        /\ NonDecreasing(op.sorted)

-----------------------------------------------------------------------------
(* download.py: _download_zip, one step for each pass of its retry loop *)

max_retries == 3

\* what requests.get, raise_for_status and the streaming of the body give:
\* the exception raised (or "none") and the response's status, if any
Response(exc, status) == [exc |-> exc, response |-> status]

Responses ==
    {Response("none", <<200>>),
     Response("HTTPError", <<404>>),
     Response("HTTPError", <<403>>),
     Response("HTTPError", <<500>>),
     Response("HTTPError", <<>>),
     Response("ConnectionError", <<>>),
     Response("Timeout", <<>>),
     Response("ChunkedEncodingError", <<>>)}

Downloading(responses, status, last_error) ==
    [name |-> "download_zip", responses |-> responses, status |-> status,
     last_error |-> last_error]

\* the except clauses: the exceptions that leave the loop running
caught(r) ==
    \/ r.exc = "HTTPError" /\ r.response # <<404>>
    \/ r.exc \in {"ConnectionError", "Timeout"}

\* one pass of "for attempt in range(1, max_retries + 1)", with the raise
\* that follows the loop when the pass was the last one
attempt_download(d, r) ==
    LET attempt == Len(d.responses) + 1
        responses == Append(d.responses, r)
    IN  IF r.exc = "none" THEN Downloading(responses, "returned", d.last_error)
        ELSE IF ~caught(r) THEN Downloading(responses, "raised", <<r>>)
        ELSE IF attempt < max_retries
             THEN Downloading(responses, "running", <<r>>)
             ELSE Downloading(responses, "raised", <<r>>)

InitDownload ==
    /\ InitStore
    /\ InitResources
    /\ ncalls = 0
    /\ log = <<>>
    /\ config = NoneVal
    /\ op = Downloading(<<>>, "running", <<>>)

DownloadAttempt ==
    /\ op.name = "download_zip"
    /\ op.status = "running"
    /\ Len(op.responses) < max_retries
    /\ \E r \in Responses : op' = attempt_download(op, r)
    /\ UNCHANGED <<storeVars, resVars, ncalls, log, config>>

NextDownload == DownloadAttempt

SpecDownload == InitDownload /\ [][NextDownload]_vars

-----------------------------------------------------------------------------
(* Claims about the download *)

ConnectionOrTimeout(r) == r.exc \in {"ConnectionError", "Timeout"}

ClientError(r) ==
    r.exc = "HTTPError" /\ r.response # <<>> /\ r.response[1] \in 400..499

Last(s) == s[Len(s)]

\* C22: a download makes at most 3 attempts; every attempt but the last one
\* ended in a connection or timeout failure; an HTTP 4xx response ends the
\* download with that error and no further attempt; the third failed attempt
\* raises the last error.
C22_RetryPolicy ==
    op.name = "download_zip" =>
        /\ Len(op.responses) <= 3
        /\ \A i \in 1..(Len(op.responses) - 1) :
               ConnectionOrTimeout(op.responses[i])
        /\ (op.responses # <<>> /\ ClientError(Last(op.responses))) =>
               (op.status = "raised" /\ op.last_error = <<Last(op.responses)>>)
        /\ (Len(op.responses) = 3 /\ Last(op.responses).exc # "none") =>
               (op.status = "raised" /\ op.last_error = <<Last(op.responses)>>)

-----------------------------------------------------------------------------
(* The condition evaluator applied to regex terms whose pattern holds a
   group *)

StrPrinterModel == Chars("printer_model")

Spacing == {<<>>, <<" ">>}

GroupPatterns == {Chars("(X1).*"), Chars("X1.*(Carbon)"), Chars("(P1).*")}

\* printer_model, the operator with or without a space on either side, and
\* the pattern between slashes
RegexTerm(before, operator, after, pattern) ==
    StrPrinterModel \o before \o operator \o after
        \o <<"/">> \o pattern \o <<"/">>

RegexTerms ==
    {RegexTerm(before, operator, after, pattern) :
        before \in Spacing, operator \in {Chars("=~"), Chars("!~")},
        after \in Spacing, pattern \in GroupPatterns}

\* a regex term alone, or before or after a comparison
RegexTermLists ==
    {<<t>> : t \in RegexTerms}
        \cup {<<t, TermNozzle>> : t \in RegexTerms}
        \cup {<<TermNozzle, t>> : t \in RegexTerms}

RegexInputs ==
    UNION {[name : {"condition"},
            terms : {l \in RegexTermLists : Len(l) = n},
            joiners : [1..(n - 1) -> {Chars(" and "), Chars(" or ")}],
            shape : IF n = 1 THEN {"flat"} ELSE {"flat", "left", "right"},
            printer_data : Printers,
            result : {"None"}] : n \in 1..2}

InitRegex ==
    /\ InitStore
    /\ InitResources
    /\ ncalls = 0
    /\ log = <<>>
    /\ config = NoneVal
    /\ op \in RegexInputs

SpecRegex == InitRegex /\ [][NextCond]_vars

\* the terms with every regex term replaced by the literal of its own value
RegexTermsEvaluated(terms, printer_data) ==
    [i \in 1..Len(terms) |->
        IF terms[i] \in RegexTerms
        THEN LowerAll(Chars(evaluate_single_condition(
                                terms[i], printer_data, StrBambustudio)))
        ELSE terms[i]]

\* C23: a parenthesis inside the regex literal that follows =~ or !~, with
\* or without whitespace between the operator and the opening slash, is
\* never taken for grouping: the condition has the value it has when each
\* regex term is matched as written.
C23_RegexParensKept ==
    Evaluated =>
        op.result = evaluate_printer_condition(
                        Condition(RegexTermsEvaluated(op.terms,
                                                      op.printer_data),
                                  op.joiners, op.shape),
                        op.printer_data, StrBambustudio, EmptyMap)

-----------------------------------------------------------------------------
(* squash.py: the inheritance squashing of split_prusaslicer_bundle and of
   squash_slic3r_profiles. A bundle or vendor directory is the sequence of
   its profiles in the order the file lists them; a profile has a name, the
   names it inherits from, and its own settings *)

StrInherits == Chars("inherits")

Profile(name, inherits, settings, instantiable) ==
    [name |-> name, inherits |-> inherits, settings |-> settings,
     instantiable |-> instantiable]

NamesOf(profiles) == {profiles[i].name : i \in 1..Len(profiles)}

ProfileNamed(profiles, name) ==
    profiles[CHOOSE i \in 1..Len(profiles) : profiles[i].name = name]

\* dict.update over the squashed parents, first to last
RECURSIVE UpdateAll(_, _)
UpdateAll(acc, dicts) ==
    IF dicts = <<>> THEN acc
    ELSE UpdateAll(Head(dicts) @@ acc, Tail(dicts))

\* what squash_inherits gives: the squashed settings, or RecursionError
Returned(data) == [raised |-> "none", data |-> data]
RecursionError == [raised |-> "RecursionError", data |-> EmptyMap]

DataOf(results) == [i \in 1..Len(results) |-> results[i].data]

\* squash_inherits(profile_name): RecursionError when the chain comes back to
\* a profile whose squashing has not returned yet: nothing is memoized
\* before the return, so the calls never end
RECURSIVE squash_inherits(_, _, _)
SquashParents(profiles, parents, active) ==
    [i \in 1..Len(parents) |-> squash_inherits(profiles, parents[i], active)]

SquashedWith(profile, parents) ==
    IF \E i \in 1..Len(parents) : parents[i] = RecursionError
    THEN RecursionError
    ELSE Returned(profile.settings @@ UpdateAll(EmptyMap, DataOf(parents)))

squash_inherits(profiles, profile_name, active) ==
    IF profile_name \in active THEN RecursionError
    ELSE IF profile_name \notin NamesOf(profiles) THEN Returned(EmptyMap)
    ELSE IF ProfileNamed(profiles, profile_name).inherits = <<>>
    THEN Returned(ProfileNamed(profiles, profile_name).settings)
    ELSE SquashedWith(ProfileNamed(profiles, profile_name),
                      SquashParents(profiles,
                                    ProfileNamed(profiles, profile_name).inherits,
                                    active \cup {profile_name}))

Squashed(created, raised) == [created |-> created, raised |-> raised]

\* the writing loop of split_prusaslicer_bundle: templates skipped, the
\* settings id added, an exception of squash_inherits not caught
RECURSIVE ini_write(_, _, _)
IniWritten(profiles, i, created, data_out) ==
    IF data_out = RecursionError THEN Squashed(created, "RecursionError")
    ELSE ini_write(profiles, i + 1,
                   Put(created, profiles[i].name,
                       Put(data_out.data, Chars("filament_settings_id"),
                           profiles[i].name)))

ini_write(profiles, i, created) ==
    IF i > Len(profiles) THEN Squashed(created, "none")
    ELSE IF Head(profiles[i].name) = "*"
    THEN ini_write(profiles, i + 1, created)
    ELSE IniWritten(profiles, i, created,
                    squash_inherits(profiles, profiles[i].name, {}))

\* lines 98-144 of split_prusaslicer_bundle, for the profiles of one type
squash_bundle(profiles) == ini_write(profiles, 1, EmptyMap)

\* the writing loop of squash_slic3r_profiles: profiles that are not
\* instantiable skipped, RecursionError caught and the profile left out
RECURSIVE slic3r_write(_, _, _)
Slic3rWritten(profiles, i, created, squashed_data) ==
    IF squashed_data = RecursionError
    THEN slic3r_write(profiles, i + 1, created)
    ELSE slic3r_write(profiles, i + 1,
                      Put(created, profiles[i].name, squashed_data.data))

slic3r_write(profiles, i, created) ==
    IF i > Len(profiles) THEN Squashed(created, "none")
    ELSE IF ~profiles[i].instantiable
    THEN slic3r_write(profiles, i + 1, created)
    ELSE Slic3rWritten(profiles, i, created,
                       squash_inherits(profiles, profiles[i].name, {}))

squash_slic3r_profiles(profiles) == slic3r_write(profiles, 1, EmptyMap)

-----------------------------------------------------------------------------
(* The squashers applied to bundles of a base profile and two profiles that
   are written out *)

StrBase == Chars("*common")
StrProfA == Chars("A")
StrProfB == Chars("B")
StrMissing == Chars("missing")

Parents == {<<>>, <<StrBase>>, <<StrProfA>>, <<StrProfB>>, <<StrMissing>>}

Bundles ==
    {<<Profile(StrBase, pc, Chars("k") :> Chars("common"), FALSE),
       Profile(StrProfA, pa, Chars("k") :> Chars("a"), TRUE),
       Profile(StrProfB, pb, Chars("j") :> Chars("b"), TRUE)>> :
        pc \in Parents, pa \in Parents, pb \in Parents}

InitSquash ==
    /\ InitStore
    /\ InitResources
    /\ ncalls = 0
    /\ log = <<>>
    /\ config = NoneVal
    /\ op \in [name : {"bundle", "vendor_dir"}, profiles : Bundles,
               out : {Squashed(EmptyMap, "none")}]

SplitBundle ==
    /\ op.name = "bundle"
    /\ op' = [op EXCEPT !.name = "split_prusaslicer_bundle",
                        !.out = squash_bundle(op.profiles)]
    /\ UNCHANGED <<storeVars, resVars, ncalls, log, config>>

SquashVendor ==
    /\ op.name = "vendor_dir"
    /\ op' = [op EXCEPT !.name = "squash_slic3r_profiles",
                        !.out = squash_slic3r_profiles(op.profiles)]
    /\ UNCHANGED <<storeVars, resVars, ncalls, log, config>>

NextSquash == SplitBundle \/ SquashVendor

SpecSquash == InitSquash /\ [][NextSquash]_vars

-----------------------------------------------------------------------------
(* Claims about the squashers *)

\* the chain of a profile reaches only profiles of the bundle and comes back
\* to none of them
RECURSIVE Resolvable(_, _, _)
Resolvable(profiles, name, seen) ==
    /\ name \notin seen
    /\ name \in NamesOf(profiles)
    /\ \A i \in 1..Len(ProfileNamed(profiles, name).inherits) :
           Resolvable(profiles, ProfileNamed(profiles, name).inherits[i],
                      seen \cup {name})

Emittable(profiles) ==
    {profiles[i].name : i \in {j \in 1..Len(profiles) : profiles[j].instantiable}}

\* C24: in both squashers nothing is raised, and the profiles written are the
\* emittable profiles except those whose inherits chain has a missing target
\* or a cycle.
C24_OnlyUnresolvedOmitted ==
    op.name \in {"split_prusaslicer_bundle", "squash_slic3r_profiles"} =>
        /\ op.out.raised = "none"
        /\ DOMAIN op.out.created =
               {n \in Emittable(op.profiles) : Resolvable(op.profiles, n, {})}

-----------------------------------------------------------------------------
(* squash.py: _load_ini_config and the head of split_prusaslicer_bundle. A
   bundle file is the sequence of its lines. IniConfig(path) is the
   iniconfig library's parser: it reads the lines into tokens, then files
   the tokens under their sections, and raises ParseError with a message *)

StrContinuation == Chars("unexpected value continuation")
StrUnexpectedLine == Chars("unexpected line")
StrNoSection == Chars("no section header defined")
StrDuplicateSection == Chars("duplicate section")
StrDuplicateName == Chars("duplicate name")
StrFilamentPrefix == Chars("filament:")

FirstIndex(s, c) ==
    IF \E i \in 1..Len(s) : s[i] = c
    THEN MinOf({i \in 1..Len(s) : s[i] = c})
    ELSE 0

Token(kind, name, data) == [kind |-> kind, name |-> name, data |-> data]

\* "name = value", or "name: value" when there is no '=' or the text before
\* it holds a ':'
ValueAt(line, i) ==
    Token("value", Strip(SubSeq(line, 1, i - 1)),
          Strip(SubSeq(line, i + 1, Len(line))))

ValueLine(line, eq, colon) ==
    IF eq > 0 /\ (colon = 0 \/ colon > eq) THEN ValueAt(line, eq)
    ELSE IF colon > 0 THEN ValueAt(line, colon)
    ELSE Token("error", <<>>, StrUnexpectedLine)

\* one line, its end stripped: blank, a section header, a value, or the
\* continuation of the value before it
ParseStripped(line) ==
    IF line = <<>> THEN Token("blank", <<>>, <<>>)
    ELSE IF Head(line) = "["
    THEN IF line[Len(line)] = "]"
         THEN Token("section", SubSeq(line, 2, Len(line) - 1), <<>>)
         ELSE Token("continuation", <<>>, Strip(line))
    ELSE IF Head(line) \notin Whitespace
    THEN ValueLine(line, FirstIndex(line, "="), FirstIndex(line, ":"))
    ELSE Token("continuation", <<>>, Strip(line))

parse_line(line) == ParseStripped(StripRight(line))

\* a token filed under a section: the section, the name (none for the
\* header itself) and the value
Parsed(section, name, value) ==
    [section |-> section, name |-> name, value |-> value]

Continued(last, data) ==
    [last EXCEPT !.value = IF last.value # <<>>
                           THEN last.value \o <<"\n">> \o data
                           ELSE data]

ParseResult(error, tokens) == [error |-> error, tokens |-> tokens]

RECURSIVE parse_lines(_, _, _, _)
ParseToken(lines, i, result, section, tok) ==
    CASE tok.kind = "error" -> ParseResult(<<tok.data>>, result)
      [] tok.kind = "value" ->
             parse_lines(lines, i + 1,
                         Append(result, Parsed(section, <<tok.name>>, tok.data)),
                         section)
      [] tok.kind = "section" ->
             parse_lines(lines, i + 1,
                         Append(result, Parsed(<<tok.name>>, <<>>, <<>>)),
                         <<tok.name>>)
      [] tok.kind = "continuation" ->
             IF result = <<>> \/ Last(result).name = <<>>
             THEN ParseResult(<<StrContinuation>>, result)
             ELSE parse_lines(lines, i + 1,
                              [result EXCEPT ![Len(result)] =
                                   Continued(Last(result), tok.data)],
                              section)
      [] OTHER -> parse_lines(lines, i + 1, result, section)

parse_lines(lines, i, result, section) ==
    IF i > Len(lines) THEN ParseResult(<<>>, result)
    ELSE ParseToken(lines, i, result, section, parse_line(lines[i]))

\* the sections in file order, each with its items
Section(name, items) == [name |-> name, items |-> items]

SectionNames(sections) == {sections[i].name : i \in 1..Len(sections)}

RECURSIVE file_tokens(_, _, _)
FileToken(tokens, i, sections, tok) ==
    IF tok.section = <<>> THEN ParseResult(<<StrNoSection>>, sections)
    ELSE IF tok.name = <<>>
    THEN IF tok.section[1] \in SectionNames(sections)
         THEN ParseResult(<<StrDuplicateSection>>, sections)
         ELSE file_tokens(tokens, i + 1,
                          Append(sections, Section(tok.section[1], EmptyMap)))
    ELSE IF tok.name[1] \in DOMAIN Last(sections).items
    THEN ParseResult(<<StrDuplicateName>>, sections)
    ELSE file_tokens(tokens, i + 1,
                     [sections EXCEPT ![Len(sections)].items =
                          Put(@, tok.name[1], tok.value)])

file_tokens(tokens, i, sections) ==
    IF i > Len(tokens) THEN ParseResult(<<>>, sections)
    ELSE FileToken(tokens, i, sections, tokens[i])

Filed(parsed) ==
    IF parsed.error # <<>> THEN parsed
    ELSE file_tokens(parsed.tokens, 1, <<>>)

\* IniConfig(path): the sections, or the ParseError
IniConfigOf(lines) == Filed(parse_lines(lines, 1, <<>>, <<>>))

\* fileinput.FileInput(path, inplace=True) with print(line.strip())
StrippedLines(lines) == [i \in 1..Len(lines) |-> Strip(lines[i])]

\* what _load_ini_config leaves: the config (none for None), the exception
\* that left it, the file as it is on disk now, and the error of every
\* parse made (none for a parse that succeeded)
Loaded(cfg, raised, file, parses) ==
    [config |-> cfg, raised |-> raised, file |-> file, parses |-> parses]

Reloaded(lines, first, second) ==
    IF second.error = <<>>
    THEN Loaded(<<second.tokens>>, "none", lines, <<first.error, <<>>>>)
    ELSE Loaded(<<>>, "ParseError", lines, <<first.error, second.error>>)

FirstLoaded(lines, first) ==
    IF first.error = <<>> THEN Loaded(<<first.tokens>>, "none", lines, <<<<>>>>)
    ELSE IF first.error = <<StrContinuation>>
    THEN Reloaded(StrippedLines(lines), first,
                  IniConfigOf(StrippedLines(lines)))
    ELSE Loaded(<<>>, "none", lines, <<first.error>>)

load_ini_config(lines) == FirstLoaded(lines, IniConfigOf(lines))

\* lines 90-96: the profiles of the sections named "filament:<name>"; the
\* parents are the parts of "inherits" between semicolons, stripped, empty
\* ones left out
ParentsOf(items) ==
    IF StrInherits \notin DOMAIN items THEN <<>>
    ELSE SelectSeq([i \in 1..Len(SplitAt(items[StrInherits], {<<";">>}, 1)) |->
                       Strip(SplitAt(items[StrInherits], {<<";">>}, 1)[i])],
                   LAMBDA x : x # <<>>)

ProfileOf(section) ==
    Profile(SubSeq(section.name, Len(StrFilamentPrefix) + 1, Len(section.name)),
            ParentsOf(section.items),
            [k \in DOMAIN section.items \ {StrInherits} |-> section.items[k]],
            ~IsPrefixOf(StrFilamentPrefix \o <<"*">>, section.name))

ProfilesOf(sections) ==
    LET filaments == SelectSeq(sections,
                               LAMBDA x : IsPrefixOf(StrFilamentPrefix, x.name))
    IN  [i \in 1..Len(filaments) |-> ProfileOf(filaments[i])]

\* what split_prusaslicer_bundle leaves: the files created, the exception
\* that left it, and what the loading left
Split(squashed, loaded) ==
    [created |-> squashed.created, raised |-> squashed.raised,
     file |-> loaded.file, parses |-> loaded.parses]

SplitLoaded(loaded) ==
    IF loaded.raised # "none"
    THEN Split(Squashed(EmptyMap, loaded.raised), loaded)
    ELSE IF loaded.config = <<>>
    THEN Split(Squashed(EmptyMap, "none"), loaded)
    ELSE Split(squash_bundle(ProfilesOf(loaded.config[1])), loaded)

split_prusaslicer_bundle(lines) == SplitLoaded(load_ini_config(lines))

-----------------------------------------------------------------------------
(* split_prusaslicer_bundle applied to bundle files of up to three lines *)

MaxLines == 3

BundleLines ==
    {Chars("[filament:A]"), Chars("k = a"), Chars("  more"),
     Chars("  j = b"), Chars("junk")}

BundleFiles == UNION {[1..n -> BundleLines] : n \in 1..MaxLines}

InitIni ==
    /\ InitStore
    /\ InitResources
    /\ ncalls = 0
    /\ log = <<>>
    /\ config = NoneVal
    /\ op \in [name : {"ini_file"}, lines : BundleFiles,
               out : {Split(Squashed(EmptyMap, "none"),
                            Loaded(<<>>, "none", <<>>, <<>>))}]

SplitIniFile ==
    /\ op.name = "ini_file"
    /\ op' = [op EXCEPT !.name = "split_ini_file",
                        !.out = split_prusaslicer_bundle(op.lines)]
    /\ UNCHANGED <<storeVars, resVars, ncalls, log, config>>

NextIni == SplitIniFile

SpecIni == InitIni /\ [][NextIni]_vars

-----------------------------------------------------------------------------
(* Claims about the loading of a bundle *)

\* C25: a bundle is parsed at most twice; the second parse is made exactly
\* after an 'unexpected value continuation' error, on the file rewritten
\* with every line stripped; when the second parse fails, or the first
\* fails with another error, split_prusaslicer_bundle returns an empty list
\* and raises nothing.
C25_BundleSkipped ==
    op.name = "split_ini_file" =>
        /\ Len(op.out.parses) \in 1..2
        /\ Len(op.out.parses) = 2 <=> op.out.parses[1] = <<StrContinuation>>
        /\ Len(op.out.parses) = 2 => op.out.file = StrippedLines(op.lines)
        /\ Last(op.out.parses) # <<>> =>
               (op.out.created = EmptyMap /\ op.out.raised = "none")

-----------------------------------------------------------------------------
(* index.py: ProfileIndex.find_filament_profile. The index of a slicer is
   the sequence of its profiles in the order they were indexed; a lookup
   that may find nothing gives the empty sequence or the one profile *)

StoredFilament(name, vendor, compatible_printers, condition, filament_vendor, filament_type) ==
    [name |-> name, vendor |-> vendor,
     compatible_printers |-> compatible_printers,
     compatible_printers_condition |-> condition,
     filament_vendor |-> filament_vendor, filament_type |-> filament_type]

find_by_name(profiles, vendor, name) ==
    SelectSeq(profiles, LAMBDA p : p.vendor = vendor /\ p.name = name)

\* _generics: the profiles whose filament_vendor is Generic and whose
\* filament_type is not empty
IsGeneric(p) == p.filament_vendor = Chars("Generic") /\ p.filament_type # <<>>

find_generic(profiles, vendor, filament_type) ==
    SelectSeq(profiles,
              LAMBDA p : /\ IsGeneric(p)
                         /\ p.vendor = vendor
                         /\ p.filament_type = filament_type)

Compatible(p, printer_name, printer_data, slicer) ==
    \/ printer_name \in Range(p.compatible_printers)
    \/ /\ Present(p.compatible_printers_condition)
       /\ p.compatible_printers_condition # <<>>
       /\ evaluate_printer_condition(p.compatible_printers_condition,
                                     printer_data, slicer, EmptyMap) = "True"

\* the first compatible profile
find_compatible(profiles, printer_name, printer_data, slicer) ==
    LET hits == SelectSeq(profiles,
                          LAMBDA p : Compatible(p, printer_name, printer_data,
                                                slicer))
    IN  IF hits = <<>> THEN <<>> ELSE <<Head(hits)>>

\* the loops of steps 2 and 4: the first vendor, in index order, whose list
\* of matches holds exactly one profile
RECURSIVE FirstSingle(_, _)
FirstSingle(vendors, matches_of_vendor) ==
    IF vendors = <<>> THEN <<>>
    ELSE IF Len(matches_of_vendor[Head(vendors)]) = 1
    THEN <<matches_of_vendor[Head(vendors)][1]>>
    ELSE FirstSingle(Tail(vendors), matches_of_vendor)

\* step 4: generic, any vendor
any_generic(profiles, filament_type) ==
    FirstSingle(VendorsOf(SelectSeq(profiles, IsGeneric)),
                [v \in Range(VendorsOf(profiles)) |->
                    find_generic(profiles, v, filament_type)])

\* steps 3 and 4
GenericFound(profiles, found, filament_type) ==
    IF found # <<>> THEN found ELSE any_generic(profiles, filament_type)

generic_steps(profiles, vendor, printer_name, printer_data, slicer, filament_type) ==
    GenericFound(profiles,
                 find_compatible(find_generic(profiles, vendor, filament_type),
                                 printer_name, printer_data, slicer),
                 filament_type)

\* step 2: template
template_step(profiles, filament_name) ==
    FirstSingle(VendorsOf(profiles),
                [v \in Range(VendorsOf(profiles)) |->
                    find_by_name(profiles, v, filament_name)])

\* step 1: specific
specific_step(profiles, vendor, printer_name, printer_data, slicer, filament_name) ==
    find_compatible(find_by_name(profiles, vendor, filament_name),
                    printer_name, printer_data, slicer)

\* for PrusaSlicer the printer is named by its printer_settings_id
PrinterNameOf(slicer, printer_name, printer_data) ==
    IF /\ slicer = StrPrusaslicer
       /\ Chars("printer_settings_id") \in DOMAIN printer_data
       /\ printer_data[Chars("printer_settings_id")].v # <<>>
    THEN printer_data[Chars("printer_settings_id")].v
    ELSE printer_name

Searched(profiles, vendor, name, printer_data, slicer, filament_name, filament_type, specific, template) ==
    IF specific # <<>> THEN specific
    ELSE IF template # <<>> THEN template
    ELSE generic_steps(profiles, vendor, name, printer_data, slicer,
                       filament_type)

SearchedAs(profiles, vendor, name, printer_data, slicer, filament_name, filament_type) ==
    Searched(profiles, vendor, name, printer_data, slicer, filament_name,
             filament_type,
             specific_step(profiles, vendor, name, printer_data, slicer,
                           filament_name),
             template_step(profiles, filament_name))

find_filament_profile(profiles, slicer, vendor, printer_name, printer_data, filament_name, filament_type) ==
    SearchedAs(profiles, vendor,
               PrinterNameOf(slicer, printer_name, printer_data),
               printer_data, slicer, filament_name, filament_type)

-----------------------------------------------------------------------------
(* find_filament_profile applied to small indexes of one slicer *)

MaxIndexed == 3

StrCreality == Chars("Creality")
StrGenericPLA == Chars("Generic PLA")
StrPLA == Chars("PLA")

IndexedFilaments ==
    {StoredFilament(StrGenericPLA, StrBBL, <<Chars("X1")>>, NoneVal,
                    Chars("Generic"), StrPLA),
     StoredFilament(StrGenericPLA, StrCreality, <<Chars("Ender")>>, NoneVal,
                    Chars("Generic"), StrPLA),
     StoredFilament(StrGenericPLA, StrCreality, <<Chars("K1")>>,
                    Chars("printer_model =~ /X1.*/"), Chars("Generic"),
                    StrPLA),
     StoredFilament(Chars("Bambu PLA"), StrBBL, <<Chars("P1S")>>, NoneVal,
                    Chars("Bambu"), StrPLA)}

\* the lists of different profiles
FilamentIndexes ==
    {l \in UNION {[1..n -> IndexedFilaments] : n \in 1..MaxIndexed} :
        \A i, j \in 1..Len(l) : i # j => l[i] # l[j]}

InitFind ==
    /\ InitStore
    /\ InitResources
    /\ ncalls = 0
    /\ log = <<>>
    /\ config = NoneVal
    /\ op \in [name : {"filament"}, profiles : FilamentIndexes,
               vendor : {StrBBL, StrCreality, Chars("Other")},
               printer_name : {Chars("X1"), Chars("A1")},
               printer_data : {PrinterD1, EmptyMap},
               filament_name : {StrGenericPLA, Chars("Bambu PLA")},
               filament_type : {StrPLA, Chars("PETG")},
               found : {<<>>}]

FindFilament ==
    /\ op.name = "filament"
    /\ op' = [op EXCEPT
                 !.name = "find_filament_profile",
                 !.found = find_filament_profile(
                               op.profiles, StrBambustudio, op.vendor,
                               op.printer_name, op.printer_data,
                               op.filament_name, op.filament_type)]
    /\ UNCHANGED <<storeVars, resVars, ncalls, log, config>>

NextFind == FindFilament

SpecFind == InitFind /\ [][NextFind]_vars

-----------------------------------------------------------------------------
(* Claims about the filament search *)

NamedAnywhere == SelectSeq(op.profiles, LAMBDA p : p.name = op.filament_name)

SpecificFound ==
    specific_step(op.profiles, op.vendor, op.printer_name, op.printer_data,
                  StrBambustudio, op.filament_name)

\* C26: when the specific step finds nothing, the template step gives a
\* profile only if exactly one profile of the whole index, all vendors
\* counted, has the filament name; otherwise the result is that of the
\* printer-generic and generic steps.
C26_TemplateUnique ==
    (op.name = "find_filament_profile" /\ SpecificFound = <<>>) =>
        IF Len(NamedAnywhere) = 1
        THEN op.found = <<NamedAnywhere[1]>>
        ELSE op.found = generic_steps(op.profiles, op.vendor, op.printer_name,
                                      op.printer_data, StrBambustudio,
                                      op.filament_type)

-----------------------------------------------------------------------------
(* index.py: is_profile_model_specific; mapping.py: _export_generic_filaments.
   The store of a slicer holds machine-model profiles and filament profiles;
   the model map lists, for each mapped printer, its profile keys
   "vendor/name" *)

NoModelCounts == NoneVal

PrusaModelSpecific(condition) ==
    /\ Present(condition)
    /\ condition # <<>>
    /\ \/ Contains(condition, Chars(".*PRINTER_MODEL_"))
       \/ Contains(condition, Chars("printer_model="))

CountDiffers(compat, counts, vendor) ==
    /\ vendor \in DOMAIN counts
    /\ counts[vendor] > 0
    /\ Len(compat) # counts[vendor]

is_profile_model_specific(slicer, vendor, profile, model_counts) ==
    IF slicer = StrPrusaslicer
    THEN PrusaModelSpecific(profile.compatible_printers_condition)
    ELSE /\ model_counts # NoModelCounts
         /\ DOMAIN model_counts # {}
         /\ slicer \in DOMAIN model_counts
         /\ CountDiffers(profile.compatible_printers, model_counts[slicer],
                         vendor)

\* the vendors of the profile keys of the model map
VendorOfKey(pk) == SplitAt(pk, {<<"/">>}, 1)[1]

VendorsSeen(model_to_profiles) ==
    {VendorOfKey(pk) :
        pk \in UNION {Range(model_to_profiles[id]) : id \in DOMAIN model_to_profiles}}

\* the names written for one vendor: the filaments that are not
\* model-specific; the check is called without the model counts
GenericData(slicer, vendor, filament_profiles) ==
    LET kept == SelectSeq(filament_profiles,
                          LAMBDA fp : /\ fp.vendor = vendor
                                      /\ ~is_profile_model_specific(
                                              slicer, vendor, fp, NoModelCounts)
                                      /\ fp.name # <<>>)
    IN  [i \in 1..Len(kept) |-> kept[i].name]

\* brands/<slicer>/<vendor>/generic_filament_profiles.json, for the vendors
\* whose file is written
export_generic_filaments(slicer, filament_profiles, model_to_profiles) ==
    LET written == {v \in VendorsSeen(model_to_profiles) :
                       GenericData(slicer, v, filament_profiles) # <<>>}
    IN  [v \in written |-> GenericData(slicer, v, filament_profiles)]

-----------------------------------------------------------------------------
(* The export of the generic filaments of small stores *)

MachineModelProfile(vendor, name) == [vendor |-> vendor, name |-> name]

MachineModels ==
    <<MachineModelProfile(StrBBL, Chars("X1")),
      MachineModelProfile(StrBBL, Chars("P1S")),
      MachineModelProfile(StrCreality, Chars("K1")),
      MachineModelProfile(Chars("Prusa"), Chars("MK3"))>>

\* filaments for one printer of BBL, for both, for the one printer of
\* Creality, and one of Prusa with a condition naming a printer model
ExportFilaments ==
    <<StoredFilament(Chars("Bambu PLA @X1"), StrBBL, <<Chars("X1")>>, NoneVal,
                     Chars("Bambu"), StrPLA),
      StoredFilament(Chars("Bambu PLA"), StrBBL,
                     <<Chars("X1"), Chars("P1S")>>, NoneVal, Chars("Bambu"),
                     StrPLA),
      StoredFilament(Chars("Creality PLA"), StrCreality, <<Chars("K1")>>,
                     NoneVal, Chars("Creality"), StrPLA),
      StoredFilament(Chars("Prusament"), Chars("Prusa"), <<>>,
                     Chars("printer_notes=~/.*PRINTER_MODEL_MK3.*/"),
                     Chars("Prusa"), StrPLA)>>

\* the subsequences of a sequence
SubSeqs(s) ==
    {SelectSeq([i \in 1..Len(s) |-> <<i, s[i]>>], LAMBDA x : x[1] \in keep) :
        keep \in SUBSET (1..Len(s))}

Second(pairs) == [i \in 1..Len(pairs) |-> pairs[i][2]]

KeyOf(mm) == mm.vendor \o <<"/">> \o mm.name

\* every mapped printer has the keys of one machine model of the store
ModelMaps(machine_models) ==
    {[id \in 1..Len(mapped) |-> <<KeyOf(mapped[id])>>] :
        mapped \in {Second(p) : p \in SubSeqs(machine_models)}}

InitExport ==
    /\ InitStore
    /\ InitResources
    /\ ncalls = 0
    /\ log = <<>>
    /\ config = NoneVal
    /\ \E mm \in {Second(p) : p \in SubSeqs(MachineModels)},
          fp \in {Second(p) : p \in SubSeqs(ExportFilaments)},
          slicer \in {StrBambustudio, StrPrusaslicer} :
          \E mapped \in ModelMaps(mm) :
              op = [name |-> "store", slicer |-> slicer,
                    machine_models |-> mm, filaments |-> fp,
                    model_to_profiles |-> mapped, brands |-> EmptyMap]

ExportGenericFilaments ==
    /\ op.name = "store"
    /\ op' = [op EXCEPT
                 !.name = "export_generic_filaments",
                 !.brands = export_generic_filaments(op.slicer, op.filaments,
                                                     op.model_to_profiles)]
    /\ UNCHANGED <<storeVars, resVars, ncalls, log, config>>

NextExport == ExportGenericFilaments

SpecExport == InitExport /\ [][NextExport]_vars

-----------------------------------------------------------------------------
(* Claims about the export of generic filaments *)

ModelsOfVendor(vendor) ==
    Cardinality({i \in 1..Len(op.machine_models) :
                    op.machine_models[i].vendor = vendor})

\* C27: for a slicer other than PrusaSlicer, a filament whose
\* compatible_printers has fewer entries than its vendor has machine-model
\* profiles in the store is not in that vendor's
\* generic_filament_profiles.json.
C27_ModelSpecificNotExported ==
    (op.name = "export_generic_filaments" /\ op.slicer # StrPrusaslicer) =>
        \A i \in 1..Len(op.filaments) :
            Len(op.filaments[i].compatible_printers)
                    < ModelsOfVendor(op.filaments[i].vendor) =>
                \/ op.filaments[i].vendor \notin DOMAIN op.brands
                \/ op.filaments[i].name
                       \notin Range(op.brands[op.filaments[i].vendor])

-----------------------------------------------------------------------------
(* Claims about report.removed *)

\* the key _list_profile_keys derives from the file a profile is saved in
FileKey(name) == profile_key(profile_path(name))

\* C28: no profile of the batch passed to ingest_profiles is listed in that
\* call's report.removed, neither under its name nor under the key of its
\* file, whatever characters the name holds.
C28_BatchNotRemoved ==
    \A i \in 1..Len(call.profiles) :
        /\ profile_key(call.profiles[i].name) \notin report.removed
        /\ FileKey(call.profiles[i].name) \notin report.removed


\* the brand match_printer_model compares catalogue models with: the alias
\* of the lowercased vendor where BRAND_MAP has one, else the lowercased vendor
TranslatedBrand(brand) ==
    IF LowerAll(brand) \in DOMAIN BRAND_MAP
    THEN BRAND_MAP[LowerAll(brand)]
    ELSE LowerAll(brand)

\* _prepare_sp_data takes the slicer profile names from the catalogue's models
PreparedFrom(sp_models, sp_slicer_names) ==
    DOMAIN sp_slicer_names \subseteq {sp_models[i].id : i \in 1..Len(sp_models)}

\* C29: every id match_printer_model returns is the id of a catalogue model
\* of the translated brand of the vendor, also when it comes from the
\* comparison with slicerProfileNames.
C29_SameBrandOnly ==
    (/\ op.name = "match_printer_model"
     /\ PreparedFrom(op.sp_models, op.sp_slicer_names)) =>
        \A id \in op.ids :
            \E i \in 1..Len(op.sp_models) :
                /\ op.sp_models[i].id = id
                /\ op.sp_models[i].brand = TranslatedBrand(op.brand)

-----------------------------------------------------------------------------
(* Cover and thumbnail images: pipeline runs that collect the images of a
   machine model, and the export that looks them up in the manifest *)

MaxAssetOps == 3

CoverSuffix == Chars("_cover.png")
ThumbnailSuffix == Chars("_thumbnail.png")
BedName == Chars("bed.stl")

\* the settings of the machine model A: its name, and optionally a bed model
\* and a thumbnail setting that names the cover image
ModelSettings ==
    {[k \in {"name"} \cup D |->
         IF k = "name" THEN NameA
         ELSE IF k = "bed_model" THEN BedName
         ELSE NameA \o CoverSuffix] : D \in SUBSET {"bed_model", "thumbnail"}}

\* the resource files a download may hold beside the profiles
AssetFiles ==
    <<[name |-> NameA \o CoverSuffix, content |-> Bytes1],
      [name |-> NameA \o ThumbnailSuffix, content |-> Bytes2],
      [name |-> BedName, content |-> <<"z", "z", "z">>]>>

AssetContents ==
    {[profiles |-> <<[name |-> NameA, settings |-> s]>>,
      resources |-> Second(r)] : s \in ModelSettings, r \in SubSeqs(AssetFiles)}

\* the entry the loop of _copy_assets stops at: the manifest is read in the
\* order of the saved file, which the model takes as the order of length
FirstHash(hashes) == CHOOSE h \in hashes : \A g \in hashes : Len(h) <= Len(g)

\* the reference _copy_assets injects for one suffix, <<>> when no manifest
\* entry has the file name
asset_ref(man, ref_name) ==
    LET hashes == {h \in DOMAIN man : man[h].filename = ref_name}
    IN  IF hashes = {} THEN <<>> ELSE <<HashPrefix \o FirstHash(hashes)>>

\* _copy_assets on the exported record of a machine model
copy_assets(name, man) ==
    [name |-> name,
     cover_png |-> asset_ref(man, name \o CoverSuffix),
     thumbnail_png |-> asset_ref(man, name \o ThumbnailSuffix)]

InitAssets ==
    /\ InitStore
    /\ InitResources
    /\ ncalls = 0
    /\ log = <<>>
    /\ config = TagConfig
    /\ op = [name |-> "none", collected |-> {}]

\* ProfilePipeline.ingest of a released version not yet stored: _run_pipeline
\* from the collection of the resources to the garbage collection
RunPipeline ==
    /\ ncalls < MaxAssetOps
    /\ \E version \in {Tag1, Tag2} : \E content \in AssetContents :
        /\ normalize_version(version) \notin Range(meta.versions)
        /\ Install(run_pipeline(Current, version, FALSE, content, NoneVal))
        /\ op' = [name |-> "run_pipeline",
                  collected |-> {f.name : f \in Range(content.resources)}]
    /\ ncalls' = ncalls + 1
    /\ UNCHANGED config

\* export_output for one machine model of the store: the record gets the
\* references _copy_assets finds in the manifest saved on disk
ExportAssets ==
    /\ ncalls < MaxAssetOps
    /\ op.name # "none"
    /\ \E path \in DOMAIN store :
        op' = [name |-> "export",
               collected |-> op.collected,
               mm_data |-> copy_assets(get_latest(store[path], "name"),
                                       diskManifest)]
    /\ ncalls' = ncalls + 1
    /\ UNCHANGED <<storeVars, resVars, log, config>>

NextAssets == RunPipeline \/ ExportAssets

SpecAssets == InitAssets /\ [][NextAssets]_vars

\* C30: when the export runs after a pipeline ingestion, a cover or thumbnail
\* image of the machine model that the ingestion collected is still in the
\* manifest, so the exported record has cover_png or thumbnail_png.
C30_CoverExported ==
    op.name = "export" =>
        /\ op.mm_data.name \o CoverSuffix \in op.collected
               => op.mm_data.cover_png # <<>>
        /\ op.mm_data.name \o ThumbnailSuffix \in op.collected
               => op.mm_data.thumbnail_png # <<>>

====
